---- MODULE Spec2Model ----
(***************************************************************************)
(* Event store, inbox pagination and retry/acknowledgment lifecycle of the *)
(* Triggers API (services/api/src).                                        *)
(*                                                                         *)
(* Strings built by concatenation with '#' ("status#timestamp",            *)
(* "timestamp#event_id", "event_type#timestamp") are modelled as tuples of *)
(* their components; timestamps are fixed-width ISO-8601 strings whose     *)
(* string order is their time order, modelled as naturals 1..MaxTs; event  *)
(* ids are modelled as naturals ordered like the id strings.               *)
(***************************************************************************)
EXTENDS Naturals, Integers, Sequences, FiniteSets, TLC

\* ------------------------------------------------------------- bounds
MaxEvents == 3
MaxTs == 2
MaxClock == 3
MaxRetryArg == 3
MaxRetryCalls == 4
MaxLifecycleEvents == 2
MaxOwnedEvents == 2
MaxRateLimit == 2
MaxRateCalls == 3
MaxWindow == 1
MaxTextLen == 2
MaxBeyondPage == 1
MaxClientRetries == 3
NumWorkers == 2

\* ------------------------------------------------- program constants
MAX_RETRY_ATTEMPTS == 3
MIN_LIMIT == 1
MAX_LIMIT == 100
COUNT_PAGE_LIMIT == 100
COUNT_SAFETY_LIMIT == 10000
GET_PAGE_LIMIT == 100
WINDOW_SECONDS == 60

Users == {"u1", "u2"}
EventTypes == {"a", "b"}
Timestamps == 1..MaxTs
EventIds == 1..MaxEvents
Statuses == {"received", "delivered", "retrying", "failed"}
NoTime == 0
KeyIds == {"k1", "k2"}
Windows == 0..MaxWindow
NoError == "None"
Payload == "payload"

VARIABLES
    table,      \* the DynamoDB events table: a set of items
    nextId,     \* the next fresh event id (uuid4 of EventService.create_event)
    now,        \* the wall clock read by the lifecycle operations
    last,       \* the last completed call: operation, arguments and result
    scan,       \* the paging client that follows cursors
    workers,    \* in-flight schedule_retry calls (between their read and write)
    retries,    \* per event id, the schedule_retry calls that returned a result
    counters,   \* the rate-limit table: request_count per (key_id, window) item
    allowed,    \* per (key_id, window), the check_rate_limit calls that returned allowed
    queue,      \* the messages sent to the events SQS queue
    api_keys    \* the DynamoDB API keys table: a set of items

vars == <<table, nextId, now, last, scan, workers, retries, counters, allowed, queue, api_keys>>

\* ------------------------------------------------------------ helpers
Min(a, b) == IF a < b THEN a ELSE b

\* Lexicographic order of two pairs of naturals.
PairLess(p, q) == p[1] < q[1] \/ (p[1] = q[1] /\ p[2] < q[2])

\* The item of the table with the given primary key (user_id, timestamp#event_id).
ItemsAt(user_id, tsid) == {i \in table : i.user_id = user_id /\ i.tsid = tsid}

\* ------------------------------------------------ EventRepository
\* The item written by create_event.
NewItem(user_id, event_id, event_type, timestamp) ==
    [ user_id       |-> user_id,
      tsid          |-> <<timestamp, event_id>>,
      event_id      |-> event_id,
      event_type    |-> event_type,
      payload       |-> Payload,
      status        |-> "received",
      timestamp     |-> timestamp,
      retry_count   |-> 0,
      type_ts       |-> <<event_type, timestamp>>,
      status_ts     |-> <<"received", timestamp>>,
      delivered_at  |-> NoTime,
      failed_at     |-> NoTime,
      last_retry_at |-> NoTime,
      last_error    |-> NoError ]

\* put_item: replaces the item with the same primary key.
PutItem(item) == (table \ ItemsAt(item.user_id, item.tsid)) \cup {item}

\* update_event_status: SET #status = :status [, retry_count = :retry_count];
\* no other attribute is written.
UpdatedStatusItem(item, status, retry_count) ==
    IF retry_count = -1
    THEN [item EXCEPT !.status = status]
    ELSE [item EXCEPT !.status = status, !.retry_count = retry_count]

\* ProjectionExpression 'event_id, event_type, #ts, payload': the store returns
\* these attributes of an item and no other.
Project(item) ==
    [ event_id   |-> item.event_id,
      event_type |-> item.event_type,
      timestamp  |-> item.timestamp,
      payload    |-> item.payload ]

\* Position of an item in the StatusIndex among the items of one user and one
\* status prefix: its index sort key, then its primary sort key.
IndexPos(item) == <<item.status_ts[2], item.tsid[1], item.tsid[2]>>

\* The index read backwards (ScanIndexForward False).
TripleLessBackward(p, q) ==
    \/ q[1] < p[1]
    \/ q[1] = p[1] /\ q[2] < p[2]
    \/ q[1] = p[1] /\ q[2] = p[2] /\ q[3] < p[3]

TripleLess(p, q) ==
    \/ p[1] < q[1]
    \/ p[1] = q[1] /\ p[2] < q[2]
    \/ p[1] = q[1] /\ p[2] = q[2] /\ p[3] < q[3]

\* The items of S in index order: the k-th is the one with k - 1 items before it.
IndexOrder(S) ==
    LET before == [x \in S |-> Cardinality({y \in S : TripleLess(IndexPos(y), IndexPos(x))})]
    IN [k \in 1..Cardinality(S) |-> CHOOSE x \in S : before[x] = k - 1]

NoKey == [present |-> FALSE]

\* The index query without its Key('user_id').eq(user_id) condition.
StatusIndexQueryAnyUser(user_id, status, query_limit, start_key) ==
    LET matched == {i \in table : i.status_ts[1] = status}
        after == IF start_key.present
                 THEN {i \in matched :
                         TripleLess(<<start_key.status_ts[2], start_key.tsid[1], start_key.tsid[2]>>,
                                    IndexPos(i))}
                 ELSE matched
        ordered == IndexOrder(after)
    IN SubSeq(ordered, 1, Min(query_limit, Len(ordered)))

\* table.query on StatusIndex: Key('user_id').eq(user_id) &
\* Key('status#timestamp').begins_with(status + '#'), ScanIndexForward, Limit,
\* ExclusiveStartKey. Returns the full items in index order.
StatusIndexQuery(user_id, status, query_limit, start_key) ==
    LET matched == {i \in table : i.user_id = user_id /\ i.status_ts[1] = status}
        after == IF start_key.present
                 THEN {i \in matched :
                         TripleLess(<<start_key.status_ts[2], start_key.tsid[1], start_key.tsid[2]>>,
                                    IndexPos(i))}
                 ELSE matched
        ordered == IndexOrder(after)
    IN SubSeq(ordered, 1, Min(query_limit, Len(ordered)))

\* query_by_status. event_types = {} stands for None or an empty list.
\* The result is [kind, items, next_key]; kind "KeyError" is the exception raised
\* by items[-1]['user_id'] on an item that lacks the attribute.
QueryByStatus(user_id, status, limit, last_evaluated_key, event_types) ==
    LET fetched == StatusIndexQuery(user_id, status, limit + 1, last_evaluated_key)
        items == [n \in 1..Len(fetched) |-> Project(fetched[n])]
        has_more == Len(items) > limit
        page == IF has_more THEN SubSeq(items, 1, limit) ELSE items
        InTypes(it) == it.event_type \in event_types
        filtered == IF event_types # {} THEN SelectSeq(page, InTypes) ELSE page
    IN IF has_more /\ ~({"user_id", "timestamp#event_id"} \subseteq DOMAIN page[limit])
       THEN [items |-> <<>>, kind |-> "KeyError", next_key |-> NoKey]
       ELSE [kind |-> "ok", items |-> filtered,
             next_key |-> IF has_more
                          THEN [present |-> TRUE,
                                user_id |-> page[limit]["user_id"],
                                tsid |-> page[limit]["timestamp#event_id"],
                                status_ts |-> IF "status#timestamp" \in DOMAIN page[limit]
                                              THEN page[limit]["status#timestamp"]
                                              ELSE <<status, page[limit].timestamp>>]
                          ELSE NoKey]

\* query_by_status_with_cursor. cursor_timestamp / cursor_event_id = 0 stand for
\* None (or the empty string); the result is [kind, items, has_more].
QueryByStatusWithCursor(user_id, status, limit, cursor_timestamp, cursor_event_id, event_types) ==
    LET last_evaluated_key ==
            IF cursor_timestamp # 0 /\ cursor_event_id # 0
            THEN [present |-> TRUE,
                  user_id |-> user_id,
                  tsid |-> <<cursor_timestamp, cursor_event_id>>,
                  status_ts |-> <<status, cursor_timestamp>>]
            ELSE NoKey
        r == QueryByStatus(user_id, status, limit, last_evaluated_key, event_types)
    IN IF r.kind # "ok"
       THEN [kind |-> r.kind, items |-> <<>>, has_more |-> FALSE]
       ELSE [kind |-> "ok", items |-> r.items, has_more |-> r.next_key.present]

\* count_events_by_status: the loop over pages of COUNT_PAGE_LIMIT items, from
\* last_evaluated_key with count items counted so far. Result [kind, count].
RECURSIVE CountLoop(_, _, _, _, _)
CountLoop(user_id, status, event_types, last_evaluated_key, count) ==
    LET r == QueryByStatus(user_id, status, COUNT_PAGE_LIMIT, last_evaluated_key, event_types)
        c == count + Len(r.items)
    IN IF r.kind # "ok" THEN [kind |-> r.kind, count |-> 0]
       ELSE IF ~r.next_key.present THEN [kind |-> "ok", count |-> c]
       ELSE IF c > COUNT_SAFETY_LIMIT THEN [kind |-> "ok", count |-> c]
       ELSE CountLoop(user_id, status, event_types, r.next_key, c)

CountEventsByStatus(user_id, status, event_types) ==
    CountLoop(user_id, status, event_types, NoKey, 0)

\* ------------------------------------------------ PaginationCursor
SecretKey == "secret"

\* _generate_signature: HMAC-SHA256 of the payload under the key, modelled as an
\* injective function of the pair.
GenerateSignature(secret_key, payload) == <<secret_key, payload>>

NoCursor == [present |-> FALSE]

\* encode_cursor: the JSON payload, '.', its signature, base64-encoded.
EncodeCursor(timestamp, event_id, user_id) ==
    LET payload == [user_id |-> user_id, event_id |-> event_id, timestamp |-> timestamp]
    IN [payload |-> payload, present |-> TRUE,
        signature |-> GenerateSignature(SecretKey, payload)]

\* decode_cursor: [kind |-> "ok", timestamp, event_id] or the ValueError.
DecodeCursor(cursor, user_id) ==
    IF cursor.signature # GenerateSignature(SecretKey, cursor.payload)
    THEN [event_id |-> 0, timestamp |-> 0, kind |-> "ValueError"]
    ELSE IF cursor.payload.user_id # user_id
    THEN [event_id |-> 0, timestamp |-> 0, kind |-> "ValueError"]
    ELSE [event_id |-> cursor.payload.event_id,
          timestamp |-> cursor.payload.timestamp, kind |-> "ok"]

\* ------------------------------------------------ InboxService
ValidInboxStatuses == {"received", "failed", "queued", "delivered"}

Raised(kind) == [kind |-> kind]

\* get_inbox_events from the repository's query result q = [kind, items, has_more]
\* on: _transform_events, the next cursor, total_count and the response.
InboxResponseFrom(user_id, limit, q, total) ==
    IF q.kind # "ok" THEN Raised(q.kind)
    ELSE LET events == q.items
             next_cursor == IF q.has_more /\ Len(events) > 0
                            THEN EncodeCursor(q.items[Len(q.items)].timestamp,
                                              q.items[Len(q.items)].event_id,
                                              user_id)
                            ELSE NoCursor
         IN IF total.kind # "ok" THEN Raised(total.kind)
            ELSE [kind |-> "ok",
                  events |-> events,
                  pagination |-> [limit |-> limit,
                                  cursor |-> next_cursor,
                                  has_more |-> q.has_more,
                                  total_count |-> total.count]]

\* get_inbox_events that does not check its limit.
InboxRequestAnyLimit(user_id, limit, cursor, status) ==
    IF status \notin ValidInboxStatuses THEN Raised("ValueError")
    ELSE LET d == IF cursor.present
                  THEN DecodeCursor(cursor, user_id)
                  ELSE [event_id |-> 0, timestamp |-> 0, kind |-> "ok"]
         IN IF d.kind # "ok" THEN Raised("ValueError") ELSE d

\* get_inbox_events up to its repository calls: the checks of limit and status
\* and the decoding of the cursor. Kind "ok" with the cursor's position
\* (0, 0 for no cursor), or the exception raised.
InboxRequest(user_id, limit, cursor, status) ==
    IF limit < MIN_LIMIT \/ limit > MAX_LIMIT THEN Raised("ValueError")
    ELSE IF status \notin ValidInboxStatuses THEN Raised("ValueError")
    ELSE LET d == IF cursor.present
                  THEN DecodeCursor(cursor, user_id)
                  ELSE [event_id |-> 0, timestamp |-> 0, kind |-> "ok"]
         IN IF d.kind # "ok" THEN Raised("ValueError") ELSE d

\* InboxService.get_inbox_events of the service constructed with the
\* EventRepository. The result is the InboxResponse (kind "ok") or the
\* exception raised (kind "ValueError", "KeyError").
GetInboxEvents(user_id, limit, cursor, event_types, status) ==
    LET d == InboxRequest(user_id, limit, cursor, status)
    IN IF d.kind # "ok" THEN d
       ELSE InboxResponseFrom(
                user_id, limit,
                QueryByStatusWithCursor(user_id, status, limit, d.timestamp, d.event_id,
                                        event_types),
                CountEventsByStatus(user_id, status, event_types))

\* ------------------------------------------------------------ state
NoCall == [op |-> "none"]

IdleWorker == [pc |-> "idle"]

IdleScan == [user_id |-> "u1", limit |-> 0, cursor |-> NoCursor, state |-> "idle",
             seen |-> <<>>, calls |-> 0]

Init ==
    /\ table = {}
    /\ nextId = 1
    /\ now = 1
    /\ last = NoCall
    /\ scan = IdleScan
    /\ workers = [w \in 1..NumWorkers |-> IdleWorker]
    /\ retries = [e \in EventIds |-> 0]
    /\ counters = {}
    /\ allowed = [k \in KeyIds, w \in Windows |-> 0]
    /\ queue = <<>>
    /\ api_keys = {}

\* EventRepository.create_event (called by EventService.create_event with a fresh
\* uuid4 and the current time).
CreateEvent(user_id, event_type, timestamp) ==
    /\ nextId <= MaxEvents
    /\ table' = PutItem(NewItem(user_id, nextId, event_type, timestamp))
    /\ nextId' = nextId + 1
    /\ last' = [op |-> "create_event", user_id |-> user_id, event_id |-> nextId]
    /\ UNCHANGED <<api_keys, now, scan, workers, retries, counters, allowed, queue>>

\* EventRepository.update_event_status on the key of a stored item.
UpdateEventStatus(item, status, retry_count) ==
    /\ item \in table
    /\ table' = (table \ {item}) \cup {UpdatedStatusItem(item, status, retry_count)}
    /\ last' = [op |-> "update_event_status", user_id |-> item.user_id,
                event_id |-> item.event_id]
    /\ UNCHANGED <<api_keys, nextId, now, scan, workers, retries, counters, allowed, queue>>

\* EventRepository.query_by_status, first page, no filter.
QueryStatus(user_id, status, limit) ==
    /\ last' = [op |-> "query_by_status", user_id |-> user_id, status |-> status,
                limit |-> limit,
                result |-> QueryByStatus(user_id, status, limit, NoKey, {})]
    /\ UNCHANGED <<api_keys, table, nextId, now, scan, workers, retries, counters, allowed, queue>>

NextStore ==
    \/ \E u \in Users, ts \in Timestamps : CreateEvent(u, "a", ts)
    \/ \E i \in table, s \in Statuses, rc \in {-1, MaxRetryArg} :
          UpdateEventStatus(i, s, rc)
    \/ \E u \in Users, k \in {1, MaxEvents} : QueryStatus(u, "received", k)

SpecStore == Init /\ [][NextStore]_vars

\* The ids of the events a query_by_status call returned.
ReturnedIds(result) == {result.items[n].event_id : n \in 1..Len(result.items)}

ReceivedIds(user_id) ==
    {i.event_id : i \in {j \in table : j.user_id = user_id /\ j.status = "received"}}

\* C2: after any sequence of create_event and update_event_status calls, a
\* query_by_status(user, 'received') that returns a complete (unpaged) result
\* returns exactly the events of that user whose current status is 'received'.
C2_QueryReturnsReceivedSet ==
    (/\ last.op = "query_by_status"
     /\ last.status = "received"
     /\ last.result.kind = "ok"
     /\ ~last.result.next_key.present)
    => ReturnedIds(last.result) = ReceivedIds(last.user_id)

\* C3: in every reachable state each stored event has
\* status#timestamp = status + '#' + timestamp and
\* event_type#timestamp = event_type + '#' + timestamp.
C3_IndexKeysDerived ==
    \A i \in table :
        /\ i.status_ts = <<i.status, i.timestamp>>
        /\ i.type_ts = <<i.event_type, i.timestamp>>

\* ------------------------------------------------ lifecycle: repository
\* The repository operations the lifecycle services call. Each takes the table
\* value it acts on and returns [found, table, event].
TerminalStatuses == {"delivered", "failed"}

NoEvent == [event_id |-> 0, status |-> "none"]

NotFound(tbl) == [found |-> FALSE, table |-> tbl, event |-> NoEvent]

\* The lookup by event_id alone, whoever owns the event.
OwnedByAnyone(tbl, user_id, event_id) == {i \in tbl : i.event_id = event_id}

\* The items of user_id with the given event_id.
OwnedBy(tbl, user_id, event_id) ==
    {i \in tbl : i.user_id = user_id /\ i.event_id = event_id}

Replaced(tbl, old, new) == [found |-> TRUE, table |-> (tbl \ {old}) \cup {new}, event |-> new]

\* get_event_status: the status snapshot of an event of user_id.
RepoGetEventStatus(tbl, user_id, event_id) ==
    IF OwnedBy(tbl, user_id, event_id) = {} THEN [found |-> FALSE]
    ELSE LET i == CHOOSE x \in OwnedBy(tbl, user_id, event_id) : TRUE
         IN [found |-> TRUE,
             event_id |-> i.event_id,
             status |-> i.status,
             retry_attempts |-> i.retry_count,
             last_retry_at |-> i.last_retry_at,
             failed_at |-> i.failed_at,
             delivered_at |-> i.delivered_at,
             last_error |-> i.last_error]

\* acknowledge_event that writes 'delivered' and delivered_at on every call.
RepoAcknowledgeEventRewriting(tbl, user_id, event_id, time) ==
    IF OwnedBy(tbl, user_id, event_id) = {} THEN NotFound(tbl)
    ELSE LET i == CHOOSE x \in OwnedBy(tbl, user_id, event_id) : TRUE
         IN Replaced(tbl, i, [i EXCEPT !.status = "delivered",
                                       !.status_ts = <<"delivered", i.timestamp>>,
                                       !.delivered_at = time])

\* acknowledge_event: the transition to 'delivered', delivered_at set on the
\* first call; no change on an event that is already delivered or failed.
RepoAcknowledgeEvent(tbl, user_id, event_id, time) ==
    IF OwnedBy(tbl, user_id, event_id) = {} THEN NotFound(tbl)
    ELSE LET i == CHOOSE x \in OwnedBy(tbl, user_id, event_id) : TRUE
         IN IF i.status \in TerminalStatuses
            THEN Replaced(tbl, i, i)
            ELSE Replaced(tbl, i, [i EXCEPT !.status = "delivered",
                                            !.status_ts = <<"delivered", i.timestamp>>,
                                            !.delivered_at = time])

\* mark_as_failed: the transition to 'failed' with failed_at and last_error; no
\* change on an event that is already delivered or failed.
RepoMarkAsFailed(tbl, user_id, event_id, failure_reason, time) ==
    IF OwnedBy(tbl, user_id, event_id) = {} THEN NotFound(tbl)
    ELSE LET i == CHOOSE x \in OwnedBy(tbl, user_id, event_id) : TRUE
         IN IF i.status \in TerminalStatuses
            THEN Replaced(tbl, i, i)
            ELSE Replaced(tbl, i, [i EXCEPT !.status = "failed",
                                            !.status_ts = <<"failed", i.timestamp>>,
                                            !.failed_at = time,
                                            !.last_error = failure_reason])

\* update_retry_attempts: writes the retry count it is given, last_error and
\* last_retry_at; the event is 'retrying'.
RepoUpdateRetryAttempts(tbl, user_id, event_id, retry_attempts, last_error, time) ==
    IF OwnedBy(tbl, user_id, event_id) = {} THEN NotFound(tbl)
    ELSE LET i == CHOOSE x \in OwnedBy(tbl, user_id, event_id) : TRUE
         IN Replaced(tbl, i, [i EXCEPT !.status = "retrying",
                                       !.status_ts = <<"retrying", i.timestamp>>,
                                       !.retry_count = retry_attempts,
                                       !.last_retry_at = time,
                                       !.last_error = last_error])

\* delete_event: removes the event of user_id; [found, table, event].
RepoDeleteEvent(tbl, user_id, event_id) ==
    IF OwnedBy(tbl, user_id, event_id) = {} THEN NotFound(tbl)
    ELSE LET i == CHOOSE x \in OwnedBy(tbl, user_id, event_id) : TRUE
         IN [found |-> TRUE, table |-> tbl \ {i}, event |-> i]

\* ------------------------------------------------ EventLifecycleService
ReturnedNone == [kind |-> "None"]

\* EventLifecycleService.acknowledge_event: [table, result].
LifecycleAcknowledge(tbl, user_id, event_id, time) ==
    LET updated == RepoAcknowledgeEvent(tbl, user_id, event_id, time)
    IN IF ~updated.found
       THEN [table |-> updated.table, result |-> ReturnedNone]
       ELSE [table |-> updated.table,
             result |-> [kind |-> "ok", event |-> updated.event]]

\* EventLifecycleService.delete_event: [table, result], the result True or False.
LifecycleDelete(tbl, user_id, event_id) ==
    LET deleted == RepoDeleteEvent(tbl, user_id, event_id)
    IN IF ~deleted.found
       THEN [table |-> deleted.table, result |-> [kind |-> "False"]]
       ELSE [table |-> deleted.table, result |-> [kind |-> "True"]]

\* ------------------------------------------------ RetryService
RETRY_DELAYS == <<60, 300, 900>>

\* next_retry_delay = None
NoDelay == [present |-> FALSE]

\* get_retry_delay with the last delay of RETRY_DELAYS out of reach.
GetRetryDelayShort(retry_attempts) ==
    IF retry_attempts >= MAX_RETRY_ATTEMPTS - 1 THEN NoDelay
    ELSE [present |-> TRUE, seconds |-> RETRY_DELAYS[retry_attempts + 1]]

\* get_retry_delay
GetRetryDelay(retry_attempts) ==
    IF retry_attempts >= MAX_RETRY_ATTEMPTS THEN NoDelay
    ELSE [present |-> TRUE, seconds |-> RETRY_DELAYS[retry_attempts + 1]]

DefaultFailureReason == "Max retry attempts exceeded"

\* RetryService.mark_failed: [table, result].
RetryMarkFailed(tbl, user_id, event_id, failure_reason, time) ==
    LET updated == RepoMarkAsFailed(tbl, user_id, event_id, failure_reason, time)
    IN IF ~updated.found
       THEN [table |-> updated.table, result |-> ReturnedNone]
       ELSE [table |-> updated.table,
             result |-> [kind |-> "ok", event |-> updated.event]]

\* The limit test exclusive of MAX_RETRY_ATTEMPTS.
MaxRetriesExceededStrict(new_attempts) == new_attempts > MAX_RETRY_ATTEMPTS

\* new_attempts = current_attempts + 1
NewAttempts(current_attempts) == current_attempts + 1

\* if new_attempts >= self.MAX_RETRY_ATTEMPTS
MaxRetriesExceeded(new_attempts) == new_attempts >= MAX_RETRY_ATTEMPTS

\* RetryService.schedule_retry from its status_info on: the part that follows
\* the read of the current retry attempts. error_message = NoError stands for
\* None. [table, result].
ScheduleRetryWrite(tbl, user_id, event_id, error_message, status_info, time) ==
    IF ~status_info.found THEN [table |-> tbl, result |-> ReturnedNone]
    ELSE LET new_attempts == NewAttempts(status_info.retry_attempts)
         IN IF MaxRetriesExceeded(new_attempts)
            THEN LET f == RetryMarkFailed(tbl, user_id, event_id,
                                          IF error_message # NoError THEN error_message
                                          ELSE DefaultFailureReason,
                                          time)
                 IN IF f.result.kind = "None"
                    THEN [table |-> f.table, result |-> ReturnedNone]
                    ELSE [table |-> f.table,
                          result |-> [kind |-> "ok",
                                      event_id |-> event_id,
                                      retry_attempts |-> new_attempts,
                                      next_retry_delay |-> NoDelay,
                                      status |-> "failed"]]
            ELSE LET u == RepoUpdateRetryAttempts(tbl, user_id, event_id, new_attempts,
                                                  error_message, time)
                 IN IF ~u.found
                    THEN [table |-> u.table, result |-> ReturnedNone]
                    ELSE [table |-> u.table,
                          result |-> [kind |-> "ok",
                                      event_id |-> event_id,
                                      retry_attempts |-> new_attempts,
                                      next_retry_delay |-> GetRetryDelay(new_attempts),
                                      status |-> "queued"]]

\* RetryService.schedule_retry, run without interleaving.
ScheduleRetryCall(tbl, user_id, event_id, error_message, time) ==
    ScheduleRetryWrite(tbl, user_id, event_id, error_message,
                       RepoGetEventStatus(tbl, user_id, event_id), time)

\* RetryService.get_event_status: the status_info or None.
RetryGetEventStatus(tbl, user_id, event_id) ==
    LET status_info == RepoGetEventStatus(tbl, user_id, event_id)
    IN IF ~status_info.found THEN ReturnedNone
       ELSE [kind |-> "ok", status_info |-> status_info]

ErrorMessages == {NoError, "timeout"}

\* ------------------------------------------------ lifecycle actions
Tick ==
    /\ now < MaxClock
    /\ now' = now + 1
    /\ UNCHANGED <<api_keys, table, nextId, last, scan, workers, retries, counters, allowed, queue>>

\* The stored event a call is about, before the call (NoEvent when the caller
\* owns no such event).
Prior(user_id, event_id) ==
    IF OwnedBy(table, user_id, event_id) = {} THEN NoEvent
    ELSE CHOOSE x \in OwnedBy(table, user_id, event_id) : TRUE

AcknowledgeEvent(user_id, event_id) ==
    /\ LET r == LifecycleAcknowledge(table, user_id, event_id, now)
       IN /\ table' = r.table
          /\ last' = [op |-> "acknowledge_event", user_id |-> user_id,
                      event_id |-> event_id, prior |-> Prior(user_id, event_id),
                      result |-> r.result]
    /\ UNCHANGED <<api_keys, nextId, now, scan, workers, retries, counters, allowed, queue>>

ScheduleRetry(user_id, event_id, error_message) ==
    /\ retries[event_id] < MaxRetryCalls
    /\ LET r == ScheduleRetryCall(table, user_id, event_id, error_message, now)
       IN /\ table' = r.table
          /\ last' = [op |-> "schedule_retry", user_id |-> user_id,
                      event_id |-> event_id, prior |-> Prior(user_id, event_id),
                      result |-> r.result]
          /\ retries' = IF r.result.kind = "ok"
                        THEN [retries EXCEPT ![event_id] = @ + 1]
                        ELSE retries
    /\ UNCHANGED <<api_keys, nextId, now, scan, workers, counters, allowed, queue>>

MarkFailed(user_id, event_id, failure_reason) ==
    /\ LET r == RetryMarkFailed(table, user_id, event_id, failure_reason, now)
       IN /\ table' = r.table
          /\ last' = [op |-> "mark_failed", user_id |-> user_id,
                      event_id |-> event_id, prior |-> Prior(user_id, event_id),
                      result |-> r.result]
    /\ UNCHANGED <<api_keys, nextId, now, scan, workers, retries, counters, allowed, queue>>

\* The lifecycle calls read neither the event type nor the event timestamp:
\* the events are created by one owner, with one type and one timestamp, and
\* the calls are made by the owner and by another user.
CreateLifecycleEvent ==
    /\ nextId <= MaxLifecycleEvents
    /\ CreateEvent("u1", "a", 1)

NextLifecycle ==
    \/ CreateLifecycleEvent
    \/ \E u \in Users, e \in EventIds : AcknowledgeEvent(u, e)
    \/ \E u \in Users, e \in EventIds, m \in ErrorMessages : ScheduleRetry(u, e, m)
    \/ \E u \in Users, e \in EventIds, m \in ErrorMessages : MarkFailed(u, e, m)

SpecLifecycle == Init /\ [][NextLifecycle]_vars

SameKey(i, j) == i.user_id = j.user_id /\ i.tsid = j.tsid

\* C4: 'delivered' and 'failed' are absorbing: no acknowledge_event,
\* schedule_retry or mark_failed call changes the status of an event that is
\* delivered or failed.
C4_TerminalAbsorbing ==
    [][\A i \in table :
          i.status \in TerminalStatuses
          => \E j \in table' : SameKey(i, j) /\ j.status = i.status]_vars

\* ------------------------------------------------ paging client
\* One GET /inbox call of a client that reads the whole inbox of user_id with
\* limit = k and no event-type filter: the first call when the scan is idle, the
\* call with the cursor of the previous response while a scan is under way.
\* The scan ends "done" on has_more = false, "failed" on an exception and
\* "stuck" on has_more = true without a cursor.
ScanAfter(sc, r) ==
    IF r.kind # "ok"
    THEN [sc EXCEPT !.state = "failed", !.calls = @ + 1]
    ELSE LET ids == [n \in 1..Len(r.events) |-> r.events[n].event_id]
         IN [sc EXCEPT !.seen = @ \o ids,
                       !.calls = @ + 1,
                       !.cursor = r.pagination.cursor,
                       !.state = IF ~r.pagination.has_more THEN "done"
                                 ELSE IF r.pagination.cursor.present THEN "paging"
                                 ELSE "stuck"]

InboxCall(user_id, k) ==
    /\ scan.state \in {"idle", "paging"}
    /\ LET sc == IF scan.state = "idle"
                 THEN [IdleScan EXCEPT !.user_id = user_id, !.limit = k]
                 ELSE scan
           r == GetInboxEvents(sc.user_id, sc.limit, sc.cursor, {}, "received")
       IN /\ scan' = ScanAfter(sc, r)
          /\ last' = [op |-> "get_inbox_events", user_id |-> sc.user_id,
                      limit |-> sc.limit, event_types |-> {}, result |-> r]
    /\ UNCHANGED <<api_keys, table, nextId, now, workers, retries, counters, allowed, queue>>

NextInbox ==
    \/ \E u \in Users, t \in EventTypes, ts \in Timestamps :
          scan.state = "idle" /\ CreateEvent(u, t, ts)
    \/ \E u \in Users, k \in 1..MaxEvents : InboxCall(u, k)

SpecInbox == Init /\ [][NextInbox]_vars

\* The number of times an id occurs in a sequence of ids.
Occurrences(seq, id) == Cardinality({n \in 1..Len(seq) : seq[n] = id})

\* C1: on a fixed set of events, reading the inbox with limit = k and following
\* the returned cursors until has_more is false never fails and returns every
\* 'received' event of the owner exactly once.
C1_PaginationComplete ==
    /\ scan.state \notin {"failed", "stuck"}
    /\ scan.state = "done" =>
          /\ \A id \in ReceivedIds(scan.user_id) : Occurrences(scan.seen, id) = 1
          /\ \A n \in 1..Len(scan.seen) : scan.seen[n] \in ReceivedIds(scan.user_id)

\* ------------------------------------------------ retry sequences
NextRetry ==
    \/ CreateLifecycleEvent
    \/ \E u \in Users, e \in EventIds, m \in ErrorMessages : ScheduleRetry(u, e, m)

SpecRetry == Init /\ [][NextRetry]_vars

RetryReturned == last.op = "schedule_retry" /\ last.result.kind = "ok"

\* C5: over any sequence of schedule_retry calls the retry count, stored and
\* as returned in 'retry_attempts', never exceeds MAX_RETRY_ATTEMPTS, and when
\* it reaches MAX_RETRY_ATTEMPTS the event is 'failed'.
C5_RetryCountBounded ==
    /\ \A i \in table :
          /\ i.retry_count <= MAX_RETRY_ATTEMPTS
          /\ i.retry_count = MAX_RETRY_ATTEMPTS => i.status = "failed"
    /\ RetryReturned =>
          /\ last.result.retry_attempts <= MAX_RETRY_ATTEMPTS
          /\ last.result.retry_attempts = MAX_RETRY_ATTEMPTS =>
                \A i \in OwnedBy(table, last.user_id, last.event_id) : i.status = "failed"

C5_Witness ==
    /\ RetryReturned
    /\ last.result.retry_attempts = MAX_RETRY_ATTEMPTS
    /\ last.prior.status = "failed"

\* C6: on a new event the first and the second schedule_retry call leave the
\* event non-failed and return a delay; the third returns status 'failed' with
\* next_retry_delay = None and leaves the event 'failed'.
C6_ThirdRetryFails ==
    RetryReturned =>
        LET n == retries[last.event_id]
            stored == OwnedBy(table, last.user_id, last.event_id)
        IN /\ n \in {1, 2} =>
                 /\ last.result.next_retry_delay.present
                 /\ last.result.status # "failed"
                 /\ \A i \in stored : i.status # "failed"
           /\ n = 3 =>
                 /\ ~last.result.next_retry_delay.present
                 /\ last.result.status = "failed"
                 /\ \A i \in stored : i.status = "failed"

C6_Witness ==
    /\ RetryReturned
    /\ retries[last.event_id] = 3
    /\ last.result.status = "failed"
    /\ last.prior.status = "retrying"

\* C7: no schedule_retry call lowers the stored retry count of an event, and
\* no schedule_retry call changes the status of a 'failed' event.
C7_RetryMonotone ==
    [][last'.op = "schedule_retry" =>
          \A i \in table :
              \E j \in table' :
                  /\ SameKey(i, j)
                  /\ j.retry_count >= i.retry_count
                  /\ i.status = "failed" => j.status = "failed"]_vars

\* ------------------------------------------------ acknowledgment
NextAck ==
    \/ CreateLifecycleEvent
    \/ Tick
    \/ \E u \in Users, e \in EventIds : AcknowledgeEvent(u, e)

SpecAck == Init /\ [][NextAck]_vars

\* C9: acknowledge_event on an event of the caller returns the stored event
\* with status 'delivered'; on an event that is already delivered it returns
\* the event as it was (same delivered_at) and leaves it unchanged.
C9_AckIdempotent ==
    (last.op = "acknowledge_event" /\ last.prior.status # "none") =>
        /\ last.result.kind = "ok"
        /\ last.result.event.status = "delivered"
        /\ last.result.event.delivered_at # NoTime
        /\ last.result.event \in table
        /\ last.prior.status = "delivered" => last.result.event = last.prior

C9_Witness ==
    /\ last.op = "acknowledge_event"
    /\ last.prior.status = "delivered"
    /\ last.prior.delivered_at < now
    /\ last.result.kind = "ok"

\* ------------------------------------------------ concurrent retries
\* A schedule_retry call of worker w up to the return of get_event_status.
RetryRead(w, user_id, event_id, error_message) ==
    /\ workers[w].pc = "idle"
    /\ workers' = [workers EXCEPT ![w] =
                      [pc |-> "read", user_id |-> user_id, event_id |-> event_id,
                       error_message |-> error_message,
                       status_info |-> RepoGetEventStatus(table, user_id, event_id)]]
    /\ UNCHANGED <<api_keys, table, nextId, now, last, scan, retries, counters, allowed, queue>>

\* The rest of the call: mark_failed or update_retry_attempts, and the return.
RetryWrite(w) ==
    /\ workers[w].pc = "read"
    /\ LET c == workers[w]
           r == ScheduleRetryWrite(table, c.user_id, c.event_id, c.error_message,
                                   c.status_info, now)
       IN /\ table' = r.table
          /\ workers' = [workers EXCEPT ![w] =
                            [pc |-> "done", user_id |-> c.user_id,
                             event_id |-> c.event_id, result |-> r.result]]
          /\ last' = [op |-> "schedule_retry", user_id |-> c.user_id,
                      event_id |-> c.event_id, prior |-> Prior(c.user_id, c.event_id),
                      result |-> r.result]
    /\ UNCHANGED <<api_keys, nextId, now, scan, retries, counters, allowed, queue>>

NextConcurrentRetry ==
    \/ (\A w \in 1..NumWorkers : workers[w].pc = "idle") /\ CreateLifecycleEvent
    \/ \E w \in 1..NumWorkers, u \in Users, e \in EventIds, m \in ErrorMessages :
          RetryRead(w, u, e, m)
    \/ \E w \in 1..NumWorkers : RetryWrite(w)

SpecConcurrentRetry == Init /\ [][NextConcurrentRetry]_vars

\* C8: when the NumWorkers concurrent schedule_retry calls for one new event
\* have all returned a result, the stored retry count has increased by
\* NumWorkers or the event is 'failed'.
C8_NoLostRetry ==
    \A u \in Users, e \in EventIds :
        (\A w \in 1..NumWorkers :
            /\ workers[w].pc = "done"
            /\ workers[w].user_id = u
            /\ workers[w].event_id = e
            /\ workers[w].result.kind = "ok")
        => \A i \in OwnedBy(table, u, e) :
               i.retry_count = NumWorkers \/ i.status = "failed"

\* ------------------------------------------------ inbox service, injected repository
\* InboxService is constructed with the repository it is given
\* (InboxService(repository=...)); here the repository returns the page
\* (items, has_more) and the count it is told to, as the mock repository of the
\* service's unit tests does.
ProjectedEvents ==
    [event_id : EventIds, event_type : EventTypes, timestamp : Timestamps,
     payload : {Payload}]

RepositoryPages(limit, event_types) ==
    {p \in UNION {[1..n -> ProjectedEvents] : n \in 0..limit} :
        /\ \A n \in 1..Len(p) : event_types = {} \/ p[n].event_type \in event_types
        /\ \A m, n \in 1..Len(p) :
              m < n => PairLess(<<p[m].timestamp, p[m].event_id>>,
                                <<p[n].timestamp, p[n].event_id>>)}

InboxServiceCall(user_id, limit, cursor, event_types, items, has_more, count) ==
    /\ LET d == InboxRequest(user_id, limit, cursor, "received")
           r == IF d.kind # "ok" THEN d
                ELSE InboxResponseFrom(
                         user_id, limit,
                         [kind |-> "ok", items |-> items, has_more |-> has_more],
                         [kind |-> "ok", count |-> count])
       IN last' = [op |-> "get_inbox_events", user_id |-> user_id, limit |-> limit,
                   event_types |-> event_types, result |-> r]
    /\ UNCHANGED <<api_keys, table, nextId, now, scan, workers, retries, counters, allowed, queue>>

NextInboxService ==
    \E u \in Users, k \in {0, 1, 2},
       c \in {NoCursor, EncodeCursor(1, 1, "u1")},
       et \in {{}, {"b"}} :
        \E items \in RepositoryPages(k, et), hm \in BOOLEAN, n \in {0, MaxEvents} :
            InboxServiceCall(u, k, c, et, items, hm, n)

SpecInboxService == Init /\ [][NextInboxService]_vars

ResumePositions == {<<0, 0>>} \cup {i.tsid : i \in table}

\* EventRepository.query_by_status_with_cursor.
QueryPage(user_id, limit, position, event_types) ==
    /\ last' = [op |-> "query_by_status_with_cursor", user_id |-> user_id,
                status |-> "received", limit |-> limit, position |-> position,
                event_types |-> event_types,
                result |-> QueryByStatusWithCursor(user_id, "received", limit,
                                                   position[1], position[2], event_types)]
    /\ UNCHANGED <<api_keys, table, nextId, now, scan, workers, retries, counters, allowed, queue>>

\* EventRepository.count_events_by_status.
CountEvents(user_id, event_types) ==
    /\ last' = [op |-> "count_events_by_status", user_id |-> user_id,
                status |-> "received", event_types |-> event_types,
                result |-> CountEventsByStatus(user_id, "received", event_types)]
    /\ UNCHANGED <<api_keys, table, nextId, now, scan, workers, retries, counters, allowed, queue>>

\* InboxService.get_inbox_events with no cursor or with the cursor of a stored
\* event's position, signed for that event's owner.
GetInbox(user_id, limit, cursor, event_types) ==
    /\ last' = [op |-> "get_inbox_events", user_id |-> user_id, limit |-> limit,
                cursor |-> cursor, event_types |-> event_types,
                result |-> GetInboxEvents(user_id, limit, cursor, event_types, "received")]
    /\ UNCHANGED <<api_keys, table, nextId, now, scan, workers, retries, counters, allowed, queue>>

IssuedCursors == {NoCursor} \cup {EncodeCursor(i.timestamp, i.event_id, i.user_id) : i \in table}

EventTypeFilters == {{}, {"b"}}

\* Pages of one owner's events.
NextReads ==
    \/ \E t \in EventTypes, ts \in Timestamps : CreateEvent("u1", t, ts)
    \/ \E u \in Users, k \in {1, MaxEvents}, pos \in ResumePositions, et \in EventTypeFilters :
          QueryPage(u, k, pos, et)

SpecReads == Init /\ [][NextReads]_vars

\* Reads of two owners' events.
CreateOwnedEvent(user_id, event_type, timestamp) ==
    /\ nextId <= MaxOwnedEvents
    /\ CreateEvent(user_id, event_type, timestamp)

NextIsolation ==
    \/ \E u \in Users, t \in EventTypes, ts \in Timestamps : CreateOwnedEvent(u, t, ts)
    \/ \E u \in Users, k \in {1, MaxOwnedEvents}, pos \in ResumePositions, et \in EventTypeFilters :
          QueryPage(u, k, pos, et)
    \/ \E u \in Users, et \in EventTypeFilters : CountEvents(u, et)
    \/ \E u \in Users, k \in {1, MaxOwnedEvents}, c \in IssuedCursors, et \in EventTypeFilters :
          GetInbox(u, k, c, et)

SpecIsolation == Init /\ [][NextIsolation]_vars

\* C11: without an event-type filter, a page requested with limit = k when r
\* events of the status remain after the resume position is returned with
\* exactly min(k, r) events, and has_more is true if and only if r > k.
C11_PageSize ==
    (last.op = "query_by_status_with_cursor" /\ last.event_types = {}) =>
        LET r == Cardinality({i \in table : /\ i.user_id = last.user_id
                                            /\ i.status = "received"
                                            /\ PairLess(last.position, i.tsid)})
        IN /\ last.result.kind = "ok"
           /\ Len(last.result.items) = Min(last.limit, r)
           /\ last.result.has_more <=> r > last.limit

\* C12: events of one owner are returned oldest first: the events of a page are
\* in ascending (timestamp, event_id) order whatever the order of creation, and
\* every event of a page read from a resume position lies strictly after it.
C12_OldestFirst ==
    (last.op = "query_by_status_with_cursor" /\ last.result.kind = "ok") =>
        LET items == last.result.items
            PositionOf(event) == <<event.timestamp, event.event_id>>
        IN /\ \A m, n \in 1..Len(items) :
                 m < n => /\ items[m].timestamp <= items[n].timestamp
                          /\ PairLess(PositionOf(items[m]), PositionOf(items[n]))
           /\ \A n \in 1..Len(items) : PairLess(last.position, PositionOf(items[n]))

C12_Witness ==
    /\ last.op = "query_by_status_with_cursor"
    /\ last.result.kind = "ok"
    /\ last.position # <<0, 0>>
    /\ Len(last.result.items) = 2
    /\ last.result.items[1].event_id > last.result.items[2].event_id
    /\ last.result.items[1].timestamp < last.result.items[2].timestamp

\* C13: every event returned to user A by query_by_status_with_cursor or
\* get_inbox_events is stored with user_id A, and the counts returned to A count
\* no event of another user, whatever limit, cursor and filter A supplies.
C13_OwnerIsolation ==
    LET StoredAs(event) == {i \in table : i.event_id = event.event_id}
    IN
    /\ (last.op = "query_by_status_with_cursor" /\ last.result.kind = "ok") =>
          \A n \in 1..Len(last.result.items) :
              /\ StoredAs(last.result.items[n]) # {}
              /\ \A i \in StoredAs(last.result.items[n]) : i.user_id = last.user_id
    /\ (last.op = "get_inbox_events" /\ last.result.kind = "ok") =>
          /\ \A n \in 1..Len(last.result.events) :
                /\ StoredAs(last.result.events[n]) # {}
                /\ \A i \in StoredAs(last.result.events[n]) : i.user_id = last.user_id
          /\ last.result.pagination.total_count
                <= Cardinality({i \in table : i.user_id = last.user_id})
    /\ (last.op = "count_events_by_status" /\ last.result.kind = "ok") =>
          last.result.count <= Cardinality({i \in table : i.user_id = last.user_id})

C13_Witness ==
    /\ last.op = "get_inbox_events"
    /\ last.result.kind = "ok"
    /\ Len(last.result.events) = 1
    /\ \E i \in table :
          /\ i.user_id # last.user_id
          /\ i.status = "received"
          /\ last.event_types = {} \/ i.event_type \in last.event_types
          /\ last.cursor.present =>
                PairLess(<<last.cursor.payload.timestamp, last.cursor.payload.event_id>>, i.tsid)

\* ------------------------------------------------ ownership of lifecycle calls
DeleteEvent(user_id, event_id) ==
    /\ LET r == LifecycleDelete(table, user_id, event_id)
       IN /\ table' = r.table
          /\ last' = [op |-> "delete_event", user_id |-> user_id,
                      event_id |-> event_id, prior |-> Prior(user_id, event_id),
                      result |-> r.result]
    /\ UNCHANGED <<api_keys, nextId, now, scan, workers, retries, counters, allowed, queue>>

GetEventStatus(user_id, event_id) ==
    /\ last' = [op |-> "get_event_status", user_id |-> user_id,
                event_id |-> event_id, prior |-> Prior(user_id, event_id),
                result |-> RetryGetEventStatus(table, user_id, event_id)]
    /\ UNCHANGED <<api_keys, table, nextId, now, scan, workers, retries, counters, allowed, queue>>

\* The HTTP status of the handlers DELETE /events/{id}, POST /events/{id}/ack
\* and GET /events/{id}/status for a service result.
HandlerStatus(op, result) ==
    IF op = "delete_event" THEN (IF result.kind = "True" THEN 204 ELSE 404)
    ELSE IF result.kind = "ok" THEN 200 ELSE 404

HandledOps == {"delete_event", "acknowledge_event", "get_event_status"}

OwnerOps == HandledOps \cup {"schedule_retry", "mark_failed"}

\* The ids the calls are made for: the id of the first event created, and an
\* id that is never stored (fewer than MaxEvents events are created).
CalledIds == {1, MaxEvents}

NextOwnership ==
    \/ \E u \in Users : CreateOwnedEvent(u, "a", 1)
    \/ \E u \in Users, e \in CalledIds : AcknowledgeEvent(u, e)
    \/ \E u \in Users, e \in CalledIds : ScheduleRetry(u, e, NoError)
    \/ \E u \in Users, e \in CalledIds : MarkFailed(u, e, NoError)
    \/ \E u \in Users, e \in CalledIds : DeleteEvent(u, e)
    \/ \E u \in Users, e \in CalledIds : GetEventStatus(u, e)

SpecOwnership == Init /\ [][NextOwnership]_vars

\* What a call returns when the event is not found.
NotFoundResult(op) == IF op = "delete_event" THEN [kind |-> "False"] ELSE ReturnedNone

\* C14: acknowledge_event, delete_event, schedule_retry, mark_failed and
\* get_event_status called for an event id the caller does not own return the
\* not-found outcome (None / False, HTTP 404), the same whether the id is stored
\* under another owner or not at all, and leave the table unchanged.
C14_NotFoundIndistinguishable ==
    [][(/\ last'.op \in OwnerOps
        /\ ~\E i \in table : i.user_id = last'.user_id /\ i.event_id = last'.event_id) =>
          /\ last'.result = NotFoundResult(last'.op)
          /\ last'.op \in HandledOps => HandlerStatus(last'.op, last'.result) = 404
          /\ table' = table]_vars

C14_Witness ==
    /\ last.op = "delete_event"
    /\ last.result = NotFoundResult("delete_event")
    /\ \E i \in table : /\ i.event_id = last.event_id
                         /\ i.user_id # last.user_id
                         /\ i.status = "retrying"

\* ------------------------------------------------ RateLimiter
\* The rate limit of an API key (api_key_record.rate_limit, at least 1).
RateLimitOf(key_id) == IF key_id = "k1" THEN 1 ELSE MaxRateLimit

\* The attribute names written literally in the UpdateExpression of
\* check_rate_limit (it passes no ExpressionAttributeNames), and those of them
\* that are DynamoDB reserved words, which an expression may only name through
\* ExpressionAttributeNames.
UpdateExpressionNames == {"request_count", "ttl", "window_start"}

DynamoReservedWords == {"name", "ttl"}

ClientErrorCodes ==
    {"ConditionalCheckFailedException", "ValidationException", "InternalServerError"}

\* An update_item call that changed nothing and ended with the given outcome.
Rejected(cnt, kind) == [kind |-> kind, counters |-> cnt, request_count |-> 0]

\* dynamodb.update_item on the counter item rl#{key_id}#{window_key}: one atomic
\* conditional update. store_error is the failure of the store itself ("none"
\* when it is available). [kind, counters, request_count].
UpdateItem(cnt, key_id, window_key, rate_limit, current_time, store_error) ==
    LET old == {c \in cnt : c.key_id = key_id /\ c.window = window_key}
    IN IF store_error # "none" THEN Rejected(cnt, store_error)
       ELSE IF UpdateExpressionNames \cap DynamoReservedWords # {}
       THEN Rejected(cnt, "ValidationException")
       ELSE IF old # {} /\ \A c \in old : ~(c.request_count < rate_limit)
       THEN Rejected(cnt, "ConditionalCheckFailedException")
       ELSE LET n == IF old = {} THEN 1
                     ELSE (CHOOSE c \in old : TRUE).request_count + 1
                start == IF old = {} THEN current_time
                         ELSE (CHOOSE c \in old : TRUE).window_start
            IN [kind |-> "ok",
                counters |-> (cnt \ old) \cup
                             {[key_id |-> key_id, window |-> window_key,
                               request_count |-> n, window_start |-> start]},
                request_count |-> n]

\* check_rate_limit that treats every failure of the update as the limit reached.
CheckRateLimitResultClosed(u, rate_limit) ==
    IF u.kind = "ok"
    THEN [kind |-> "ok", is_allowed |-> TRUE,
          remaining |-> IF rate_limit - u.request_count > 0
                        THEN rate_limit - u.request_count ELSE 0,
          retry_after |-> 0]
    ELSE [kind |-> "RateLimitError", is_allowed |-> FALSE, remaining |-> 0,
          retry_after |-> WINDOW_SECONDS]

\* check_rate_limit from the outcome u of its update_item call on: (True,
\* remaining), RateLimitError(retry_after), or the exception that is not a
\* ClientError, which it does not catch.
CheckRateLimitResult(u, rate_limit) ==
    IF u.kind = "ok"
    THEN [kind |-> "ok", is_allowed |-> TRUE,
          remaining |-> IF rate_limit - u.request_count > 0
                        THEN rate_limit - u.request_count ELSE 0,
          retry_after |-> 0]
    ELSE IF u.kind = "ConditionalCheckFailedException"
    THEN [kind |-> "RateLimitError", is_allowed |-> FALSE, remaining |-> 0,
          retry_after |-> WINDOW_SECONDS]
    ELSE IF u.kind \in ClientErrorCodes
    THEN [kind |-> "ok", is_allowed |-> TRUE, remaining |-> rate_limit, retry_after |-> 0]
    ELSE [kind |-> u.kind, is_allowed |-> FALSE, remaining |-> 0, retry_after |-> 0]

WindowKey(current_time) == current_time \div WINDOW_SECONDS

\* RateLimiter.check_rate_limit from its reading of the clock on: [counters, result].
CheckRateLimit(cnt, key_id, rate_limit, current_time, store_error) ==
    LET u == UpdateItem(cnt, key_id, WindowKey(current_time), rate_limit, current_time,
                        store_error)
    IN [counters |-> u.counters, result |-> CheckRateLimitResult(u, rate_limit)]

\* A check_rate_limit call of worker w up to its reading of the clock.
RateLimitStart(w, key_id) ==
    /\ workers[w].pc = "idle"
    /\ allowed[key_id, WindowKey(now)] < MaxRateCalls
    /\ workers' = [workers EXCEPT ![w] =
                      [pc |-> "limit", key_id |-> key_id, current_time |-> now]]
    /\ UNCHANGED <<api_keys, table, nextId, now, last, scan, retries, counters, allowed, queue>>

\* The rest of the call: the update_item on an available store, and the return.
RateLimitFinish(w) ==
    /\ workers[w].pc = "limit"
    /\ LET c == workers[w]
           wk == WindowKey(c.current_time)
           r == CheckRateLimit(counters, c.key_id, RateLimitOf(c.key_id), c.current_time,
                               "none")
       IN /\ counters' = r.counters
          /\ allowed' = IF r.result.is_allowed
                        THEN [allowed EXCEPT ![c.key_id, wk] = @ + 1]
                        ELSE allowed
          /\ last' = [op |-> "check_rate_limit", key_id |-> c.key_id, window |-> wk,
                      rate_limit |-> RateLimitOf(c.key_id),
                      allowed_before |-> allowed[c.key_id, wk],
                      result |-> r.result]
    /\ workers' = [workers EXCEPT ![w] = IdleWorker]
    /\ UNCHANGED <<api_keys, table, nextId, now, scan, retries, queue>>

\* The clock reaches the next window.
NextWindow ==
    /\ WindowKey(now) < MaxWindow
    /\ now' = now + WINDOW_SECONDS
    /\ UNCHANGED <<api_keys, table, nextId, last, scan, workers, retries, counters, allowed, queue>>

NextRateLimit ==
    \/ \E w \in 1..NumWorkers, k \in KeyIds : RateLimitStart(w, k)
    \/ \E w \in 1..NumWorkers : RateLimitFinish(w)
    \/ NextWindow

SpecRateLimit == Init /\ [][NextRateLimit]_vars

\* C15: for every API key and window, sequentially or concurrently, at most
\* rate_limit check_rate_limit calls return allowed, the stored request_count
\* never exceeds rate_limit, and every further call raises RateLimitError with
\* retry_after = 60.
C15_RateLimitEnforced ==
    /\ \A k \in KeyIds, w \in Windows : allowed[k, w] <= RateLimitOf(k)
    /\ \A c \in counters : c.request_count <= RateLimitOf(c.key_id)
    /\ (last.op = "check_rate_limit" /\ last.allowed_before >= last.rate_limit) =>
          /\ last.result.kind = "RateLimitError"
          /\ last.result.retry_after = 60

\* ------------------------------------------------ authorizer
\* lambda_handler that denies the request when update_last_used failed.
LambdaHandlerUpdateRequired(key_state, key_id, limiter, update_last_used_ok) ==
    IF key_state # "valid" \/ ~update_last_used_ok
    THEN [kind |-> "Unauthorized", key_id |-> key_id, rate_limit_remaining |-> 0]
    ELSE IF limiter.kind = "RateLimitError"
    THEN [kind |-> "Unauthorized", key_id |-> key_id, rate_limit_remaining |-> 0]
    ELSE [kind |-> "Allow", key_id |-> key_id,
          rate_limit_remaining |-> IF limiter.kind = "ok" THEN limiter.remaining
                                   ELSE RateLimitOf(key_id)]

\* auth.lambda_handler for a request with a methodArn: the Allow policy with its
\* context, or the exception 'Unauthorized'. limiter is the result of
\* check_rate_limit; a failure of update_last_used is logged and ignored.
LambdaHandler(key_state, key_id, limiter, update_last_used_ok) ==
    IF key_state # "valid"
    THEN [kind |-> "Unauthorized", key_id |-> key_id, rate_limit_remaining |-> 0]
    ELSE IF limiter.kind = "RateLimitError"
    THEN [kind |-> "Unauthorized", key_id |-> key_id, rate_limit_remaining |-> 0]
    ELSE [kind |-> "Allow", key_id |-> key_id,
          rate_limit_remaining |-> IF limiter.kind = "ok" THEN limiter.remaining
                                   ELSE RateLimitOf(key_id)]

\* The outcomes of the update_item call that the store client can hand to
\* check_rate_limit: the new count, a ClientError, or an error raised before
\* any response (not a ClientError).
StoreOutcomes ==
    {Rejected(counters, k) : k \in ClientErrorCodes \cup {"EndpointConnectionError"}}
    \cup {[kind |-> "ok", counters |-> counters, request_count |-> n] : n \in 1..MaxRateLimit}

\* One authorizer invocation, the store client answering the limiter's update
\* with outcome u.
Authorize(key_state, key_id, u, update_last_used_ok) ==
    /\ LET limiter == CheckRateLimitResult(u, RateLimitOf(key_id))
       IN last' = [op |-> "authorize", key_state |-> key_state, key_id |-> key_id,
                   rate_limit |-> RateLimitOf(key_id), store |-> u.kind,
                   limiter |-> limiter,
                   update_last_used_ok |-> update_last_used_ok,
                   result |-> LambdaHandler(key_state, key_id, limiter,
                                            update_last_used_ok)]
    /\ UNCHANGED <<api_keys, table, nextId, now, scan, workers, retries, counters, allowed, queue>>

\* What the authorizer finds for the X-API-Key header of a request: no header,
\* no table configured, no record for the hash, a record that is inactive, one
\* that is expired, or an active unexpired record.
NextAuthorizer ==
    \E s \in {"missing", "config_error", "not_found", "inactive", "expired", "valid"} :
        \E k \in KeyIds, u \in StoreOutcomes, ok \in BOOLEAN : Authorize(s, k, u, ok)

SpecAuthorizer == Init /\ [][NextAuthorizer]_vars

SqsClientErrors == {"ServiceUnavailable"}

\* _queue_event that lets the ClientError of send_message out.
QueueEventRaising(sqs_outcome) ==
    IF sqs_outcome = "sent" THEN [kind |-> "None", sent |-> TRUE]
    ELSE [kind |-> sqs_outcome, sent |-> FALSE]

\* EventService._queue_event: a ClientError of send_message is logged and
\* swallowed; any other exception leaves the method.
QueueEvent(sqs_outcome) ==
    IF sqs_outcome = "sent" THEN [kind |-> "None", sent |-> TRUE]
    ELSE IF sqs_outcome \in SqsClientErrors THEN [kind |-> "None", sent |-> FALSE]
    ELSE [kind |-> sqs_outcome, sent |-> FALSE]

\* What create_event raises instead of returning a response.
CreateRaised(error) == [kind |-> error, event_id |-> 0, status |-> "", timestamp |-> NoTime]

EventResponse(event_id, timestamp) ==
    [kind |-> "EventResponse", event_id |-> event_id, status |-> "received",
     timestamp |-> timestamp]

\* create_event that sends the queue message before it persists the event.
ServiceCreateEventQueueFirst(user_id, event_type, timestamp, put_outcome, queue_url_set, sqs_outcome) ==
    /\ nextId <= MaxOwnedEvents
    /\ LET event_id == nextId
           stored == put_outcome = "stored"
           queued == IF queue_url_set THEN QueueEvent(sqs_outcome)
                     ELSE [kind |-> "None", sent |-> FALSE]
       IN /\ table' = IF stored
                      THEN PutItem(NewItem(user_id, event_id, event_type, timestamp))
                      ELSE table
          /\ nextId' = IF stored THEN nextId + 1 ELSE nextId
          /\ queue' = IF queued.sent
                      THEN Append(queue, [event_id |-> event_id, user_id |-> user_id,
                                          event_type |-> event_type,
                                          timestamp |-> timestamp])
                      ELSE queue
          /\ last' = [op |-> "EventService.create_event", user_id |-> user_id,
                      event_id |-> event_id, put_outcome |-> put_outcome,
                      queue_url_set |-> queue_url_set, sqs_outcome |-> sqs_outcome,
                      result |-> IF queued.kind # "None" THEN CreateRaised(queued.kind)
                                 ELSE IF ~stored THEN CreateRaised(put_outcome)
                                 ELSE EventResponse(event_id, timestamp)]
    /\ UNCHANGED <<api_keys, now, scan, workers, retries, counters, allowed>>

\* EventService.create_event: persist, then queue if a queue is configured,
\* then answer; every exception of either step is logged and raised again.
ServiceCreateEvent(user_id, event_type, timestamp, put_outcome, queue_url_set, sqs_outcome) ==
    /\ nextId <= MaxOwnedEvents
    /\ LET event_id == nextId
           stored == put_outcome = "stored"
           queued == IF stored /\ queue_url_set THEN QueueEvent(sqs_outcome)
                     ELSE [kind |-> "None", sent |-> FALSE]
       IN /\ table' = IF stored
                      THEN PutItem(NewItem(user_id, event_id, event_type, timestamp))
                      ELSE table
          /\ nextId' = IF stored THEN nextId + 1 ELSE nextId
          /\ queue' = IF queued.sent
                      THEN Append(queue, [event_id |-> event_id, user_id |-> user_id,
                                          event_type |-> event_type,
                                          timestamp |-> timestamp])
                      ELSE queue
          /\ last' = [op |-> "EventService.create_event", user_id |-> user_id,
                      event_id |-> event_id, put_outcome |-> put_outcome,
                      queue_url_set |-> queue_url_set, sqs_outcome |-> sqs_outcome,
                      result |-> IF ~stored THEN CreateRaised(put_outcome)
                                 ELSE IF queued.kind # "None" THEN CreateRaised(queued.kind)
                                 ELSE EventResponse(event_id, timestamp)]
    /\ UNCHANGED <<api_keys, now, scan, workers, retries, counters, allowed>>

\* The put_item of the repository stores the item or fails; send_message sends
\* the message, answers with an error, or gets no answer (not a ClientError).
NextEventService ==
    \E u \in Users, t \in EventTypes, ts \in Timestamps, q \in BOOLEAN :
        \E p \in {"stored", "ProvisionedThroughputExceededException"} :
            \E s \in {"sent", "EndpointConnectionError"} \cup SqsClientErrors :
                ServiceCreateEvent(u, t, ts, p, q, s)

SpecEventService == Init /\ [][NextEventService]_vars

Ascii ==
    [a |-> 97, quote |-> 34, hash |-> 35, plus |-> 43, comma |-> 44, minus |-> 45,
     dot |-> 46, slash |-> 47, zero |-> 48, colon |-> 58, pad |-> 61, upperA |-> 65,
     backslash |-> 92, underscore |-> 95, z |-> 122, lbrace |-> 123, rbrace |-> 125]

\* The keys of the cursor payload: "event_id", "timestamp", "user_id".
CursorKeys ==
    [user_id |-> <<117, 115, 101, 114, 95, 105, 100>>,
     event_id |-> <<101, 118, 101, 110, 116, 95, 105, 100>>,
     timestamp |-> <<116, 105, 109, 101, 115, 116, 97, 109, 112>>]

\* json.dumps of a string: quotes around it, '"' and '\' escaped by '\'.
RECURSIVE JsonEscape(_)
JsonEscape(s) ==
    IF s = <<>> THEN <<>>
    ELSE (IF Head(s) \in {Ascii.quote, Ascii.backslash}
          THEN <<Ascii.backslash, Head(s)>> ELSE <<Head(s)>>) \o JsonEscape(Tail(s))

\* json.dumps(payload, separators=(',', ':'), sort_keys=True) of the cursor
\* payload.
JsonDumps(payload) ==
    LET JsonString(s) == <<Ascii.quote>> \o JsonEscape(s) \o <<Ascii.quote>>
    IN
    <<Ascii.lbrace>>
    \o JsonString(CursorKeys.event_id) \o <<Ascii.colon>> \o JsonString(payload.event_id)
    \o <<Ascii.comma>>
    \o JsonString(CursorKeys.timestamp) \o <<Ascii.colon>> \o JsonString(payload.timestamp)
    \o <<Ascii.comma>>
    \o JsonString(CursorKeys.user_id) \o <<Ascii.colon>> \o JsonString(payload.user_id)
    \o <<Ascii.rbrace>>

JsonDecodeError == [ok |-> FALSE, value |-> <<>>, next |-> 0]

\* The JSON string whose first character after the opening quote is s[i]: its
\* value (escapes resolved) and the position after its closing quote.
RECURSIVE ScanString(_, _, _)
ScanString(s, i, acc) ==
    IF i > Len(s) THEN JsonDecodeError
    ELSE IF s[i] = Ascii.quote THEN [ok |-> TRUE, value |-> acc, next |-> i + 1]
    ELSE IF s[i] = Ascii.backslash
    THEN IF i + 1 > Len(s) \/ s[i + 1] \notin {Ascii.quote, Ascii.backslash, Ascii.slash}
         THEN JsonDecodeError
         ELSE ScanString(s, i + 2, Append(acc, s[i + 1]))
    ELSE ScanString(s, i + 1, Append(acc, s[i]))

\* The members "key":"value" of a JSON object from position i to its closing
\* brace, which must end the text; obj holds the members read so far.
RECURSIVE ParseMembers(_, _, _)
ParseMembers(s, i, obj) ==
    IF i > Len(s) \/ s[i] # Ascii.quote THEN JsonDecodeError
    ELSE LET k == ScanString(s, i + 1, <<>>)
         IN IF ~k.ok \/ k.next + 1 > Len(s) THEN JsonDecodeError
            ELSE IF s[k.next] # Ascii.colon \/ s[k.next + 1] # Ascii.quote
            THEN JsonDecodeError
            ELSE LET v == ScanString(s, k.next + 2, <<>>)
                     members == Append(obj, <<k.value, v.value>>)
                 IN IF ~v.ok \/ v.next > Len(s) THEN JsonDecodeError
                    ELSE IF s[v.next] = Ascii.rbrace
                    THEN IF v.next = Len(s)
                         THEN [ok |-> TRUE, value |-> members, next |-> v.next + 1]
                         ELSE JsonDecodeError
                    ELSE IF s[v.next] = Ascii.comma
                    THEN ParseMembers(s, v.next + 1, members)
                    ELSE JsonDecodeError

\* json.loads of a compact object of strings: the sequence of its members.
JsonLoads(s) ==
    IF Len(s) < 2 \/ s[1] # Ascii.lbrace THEN JsonDecodeError
    ELSE IF s[2] = Ascii.rbrace
    THEN IF Len(s) = 2 THEN [ok |-> TRUE, value |-> <<>>, next |-> 3] ELSE JsonDecodeError
    ELSE ParseMembers(s, 2, <<>>)

\* payload[key] (the last member with that key).
GetKey(obj, key) ==
    LET m == CHOOSE n \in 1..Len(obj) :
                 obj[n][1] = key /\ \A l \in (n + 1)..Len(obj) : obj[l][1] # key
    IN obj[m][2]

\* The two lowercase hexadecimal digits of each byte.
HexOf(bytes) ==
    LET HexChar(n) == IF n < 10 THEN Ascii.zero + n ELSE Ascii.a + (n - 10)
    IN [j \in 1..(2 * Len(bytes)) |->
            IF j % 2 = 1 THEN HexChar(bytes[(j + 1) \div 2] \div 16)
            ELSE HexChar(bytes[j \div 2] % 16)]

\* _generate_signature as text: the hex digest of the keyed hash of the
\* payload, an injective function of key and payload whose value is a text of
\* hexadecimal digits.
HexDigest(secret_key, payload_json) ==
    LET key == IF secret_key = SecretKey THEN <<115>> ELSE <<111>>
    IN HexOf(key \o <<0>> \o payload_json)

\* The character of the URL-safe base64 alphabet for a six-bit value.
B64Char(n) ==
    IF n < 26 THEN Ascii.upperA + n
    ELSE IF n < 52 THEN Ascii.a + (n - 26)
    ELSE IF n < 62 THEN Ascii.zero + (n - 52)
    ELSE IF n = 62 THEN Ascii.minus
    ELSE Ascii.underscore

\* The six-bit value of a character accepted by urlsafe_b64decode ('-' and '_'
\* are translated to '+' and '/', which are accepted as well); -1 for others.
B64Index(c) ==
    IF c >= Ascii.upperA /\ c < Ascii.upperA + 26 THEN c - Ascii.upperA
    ELSE IF c >= Ascii.a /\ c <= Ascii.z THEN c - Ascii.a + 26
    ELSE IF c >= Ascii.zero /\ c < Ascii.zero + 10 THEN c - Ascii.zero + 52
    ELSE IF c \in {Ascii.minus, Ascii.plus} THEN 62
    ELSE IF c \in {Ascii.underscore, Ascii.slash} THEN 63
    ELSE 0 - 1

\* base64.urlsafe_b64encode: three bytes to four characters, the last group
\* padded with '='.
UrlsafeB64Encode(bytes) ==
    LET n == Len(bytes)
        At(m) == IF m <= n THEN bytes[m] ELSE 0
        Char(j) ==
            LET g == 3 * ((j - 1) \div 4)
                k == (j - 1) % 4
            IN IF k = 0 THEN B64Char(At(g + 1) \div 4)
               ELSE IF k = 1 THEN B64Char((At(g + 1) % 4) * 16 + At(g + 2) \div 16)
               ELSE IF k = 2
               THEN IF g + 2 > n THEN Ascii.pad
                    ELSE B64Char((At(g + 2) % 16) * 4 + At(g + 3) \div 64)
               ELSE IF g + 3 > n THEN Ascii.pad ELSE B64Char(At(g + 3) % 64)
    IN [j \in 1..(4 * ((n + 2) \div 3)) |-> Char(j)]

\* base64.urlsafe_b64decode: characters outside the alphabet are discarded,
\* the rest must be groups of four with at most two '=' closing the last one;
\* each group of four six-bit values gives three bytes.
UrlsafeB64Decode(chars) ==
    LET Kept(c) == c = Ascii.pad \/ B64Index(c) >= 0
        kept == SelectSeq(chars, Kept)
        IsPad(c) == c = Ascii.pad
        pads == Len(SelectSeq(kept, IsPad))
        data == SubSeq(kept, 1, Len(kept) - pads)
        Sextet(m) == IF m <= Len(data) THEN B64Index(data[m]) ELSE 0
        Byte(j) ==
            LET g == 4 * ((j - 1) \div 3)
                k == (j - 1) % 3
            IN IF k = 0 THEN Sextet(g + 1) * 4 + Sextet(g + 2) \div 16
               ELSE IF k = 1 THEN (Sextet(g + 2) % 16) * 16 + Sextet(g + 3) \div 4
               ELSE (Sextet(g + 3) % 4) * 64 + Sextet(g + 4)
    IN IF Len(kept) % 4 # 0 \/ pads > 2 \/ \E m \in 1..Len(data) : data[m] = Ascii.pad
       THEN [ok |-> FALSE, bytes |-> <<>>]
       ELSE [ok |-> TRUE, bytes |-> [j \in 1..(3 * (Len(kept) \div 4) - pads) |-> Byte(j)]]

\* decoded.rsplit('.', 1) that splits at the first '.' instead.
SplitFirstDot(decoded) ==
    LET dots == {m \in 1..Len(decoded) : decoded[m] = Ascii.dot}
        at == CHOOSE m \in dots : \A l \in dots : l >= m
    IN IF dots = {} THEN <<decoded>>
       ELSE <<SubSeq(decoded, 1, at - 1), SubSeq(decoded, at + 1, Len(decoded))>>

\* decoded.rsplit('.', 1): the text before and the text after the last '.', or
\* the text alone if it holds no '.'.
RSplitDot(decoded) ==
    LET dots == {m \in 1..Len(decoded) : decoded[m] = Ascii.dot}
        at == CHOOSE m \in dots : \A l \in dots : l <= m
    IN IF dots = {} THEN <<decoded>>
       ELSE <<SubSeq(decoded, 1, at - 1), SubSeq(decoded, at + 1, Len(decoded))>>

\* hmac.compare_digest that accepts every signature.
CompareDigestAny(signature, expected) == TRUE

\* hmac.compare_digest of two ASCII texts.
CompareDigest(signature, expected) == signature = expected

\* The check of the cursor's user_id that lets every user pass.
SameUserAny(cursor_user_id, user_id) == TRUE

\* payload['user_id'] != user_id, negated.
SameUser(cursor_user_id, user_id) == cursor_user_id = user_id

\* encode_cursor with the key secret_key: the cursor string.
EncodeCursorString(secret_key, timestamp, event_id, user_id) ==
    LET Signed(payload_json) ==
            UrlsafeB64Encode(payload_json \o <<Ascii.dot>>
                             \o HexDigest(secret_key, payload_json))
    IN Signed(JsonDumps([timestamp |-> timestamp, event_id |-> event_id,
                         user_id |-> user_id]))

CursorValueError == [event_id |-> <<>>, timestamp |-> <<>>, kind |-> "ValueError"]

\* decode_cursor with the key secret_key: (timestamp, event_id) or ValueError,
\* which every exception of the body is turned into.
DecodeCursorString(secret_key, cursor, user_id) ==
    LET Checked(payload) ==
            IF ~payload.ok THEN CursorValueError
            ELSE IF \E k \in {CursorKeys.timestamp, CursorKeys.event_id, CursorKeys.user_id} :
                        \A m \in 1..Len(payload.value) : payload.value[m][1] # k
            THEN CursorValueError
            ELSE IF ~SameUser(GetKey(payload.value, CursorKeys.user_id), user_id)
            THEN CursorValueError
            ELSE [kind |-> "ok", timestamp |-> GetKey(payload.value, CursorKeys.timestamp),
                  event_id |-> GetKey(payload.value, CursorKeys.event_id)]
        Verified(parts) ==
            IF Len(parts) # 2 THEN CursorValueError
            ELSE IF ~CompareDigest(parts[2], HexDigest(secret_key, parts[1]))
            THEN CursorValueError
            ELSE Checked(JsonLoads(parts[1]))
        Decoded(decoded) ==
            IF ~decoded.ok \/ \E m \in 1..Len(decoded.bytes) : decoded.bytes[m] >= 128
            THEN CursorValueError
            ELSE Verified(RSplitDot(decoded.bytes))
    IN Decoded(UrlsafeB64Decode(cursor))

\* The texts of at most n characters over '.', '#', '"', '\' and 'a'.
RECURSIVE Texts(_)
Texts(n) ==
    LET TextAlphabet == {Ascii.a, Ascii.dot, Ascii.hash, Ascii.quote, Ascii.backslash}
    IN IF n = 0 THEN {<<>>}
       ELSE Texts(n - 1) \cup {Append(s, c) : s \in Texts(n - 1), c \in TextAlphabet}

\* The user ids "u1" and "u.2".
UserTexts == {<<117, 49>>, <<117, 46, 50>>}

\* What a holder of a cursor can make of it without the key: the payload with
\* one field changed under the old signature, the old payload with one
\* character of the signature changed, the payload alone, and a cursor signed
\* with a key of their own.
ForgedKinds == {"timestamp", "event_id", "user_id", "signature_first", "signature_last", "unsigned", "secret"}

ForgeCursor(kind, cursor, timestamp, event_id, user_id, reader) ==
    LET FlipHex(c) == IF c = Ascii.zero THEN Ascii.zero + 1 ELSE Ascii.zero
        FlipAt(signature, at) == [signature EXCEPT ![at] = FlipHex(signature[at])]
        changed == JsonDumps(
            [timestamp |-> IF kind = "timestamp" THEN Append(timestamp, Ascii.a)
                           ELSE timestamp,
             event_id |-> IF kind = "event_id" THEN Append(event_id, Ascii.a)
                          ELSE event_id,
             user_id |-> IF kind = "user_id" THEN reader ELSE user_id])
        Forged(parts) ==
            IF kind \in {"timestamp", "event_id", "user_id"}
            THEN UrlsafeB64Encode(changed \o <<Ascii.dot>> \o parts[2])
            ELSE IF kind \in {"signature_first", "signature_last"}
            THEN UrlsafeB64Encode(
                     parts[1] \o <<Ascii.dot>>
                     \o FlipAt(parts[2], IF kind = "signature_first" THEN 1
                                         ELSE Len(parts[2])))
            ELSE IF kind = "unsigned" THEN UrlsafeB64Encode(parts[1])
            ELSE EncodeCursorString("other", timestamp, event_id, user_id)
    IN Forged(RSplitDot(UrlsafeB64Decode(cursor).bytes))

\* A request to come: the position to encode (a timestamp, and one of the event
\* ids "a.1#", ".a", "#"), the user it is encoded for and the user who presents
\* the cursor.
InitCursor ==
    /\ table = {}
    /\ nextId = 1
    /\ now = 1
    /\ last \in [op : {"request"}, timestamp : Texts(MaxTextLen),
                 event_id : {<<97, 46, 49, 35>>, <<46, 97>>, <<35>>},
                 user_id : UserTexts, reader : UserTexts, forged : {"none"},
                 cursor : {<<>>}, limit : {0}, result : {CursorValueError},
                 queries : {<<>>}]
    /\ scan = IdleScan
    /\ workers = [w \in 1..NumWorkers |-> IdleWorker]
    /\ retries = [e \in EventIds |-> 0]
    /\ counters = {}
    /\ allowed = [k \in KeyIds, w \in Windows |-> 0]
    /\ queue = <<>>
    /\ api_keys = {}

\* The service encodes the cursor for last.user_id.
EncodeCursorCall ==
    /\ last.op = "request"
    /\ last' = [last EXCEPT !.op = "encode_cursor",
                            !.cursor = EncodeCursorString(SecretKey, last.timestamp,
                                                          last.event_id, last.user_id)]
    /\ UNCHANGED <<api_keys, table, nextId, now, scan, workers, retries, counters, allowed, queue>>

\* The holder of the cursor changes it.
Forge(kind) ==
    /\ last.op = "encode_cursor"
    /\ kind = "user_id" => last.reader # last.user_id
    /\ last' = [last EXCEPT !.op = "forged", !.forged = kind,
                            !.cursor = ForgeCursor(kind, last.cursor, last.timestamp,
                                                   last.event_id, last.user_id,
                                                   last.reader)]
    /\ UNCHANGED <<api_keys, table, nextId, now, scan, workers, retries, counters, allowed, queue>>

\* The service decodes the cursor presented by last.reader.
DecodeCursorCall ==
    /\ last.op \in {"encode_cursor", "forged"}
    /\ last' = [last EXCEPT !.op = "decode_cursor",
                            !.result = DecodeCursorString(SecretKey, last.cursor,
                                                          last.reader)]
    /\ UNCHANGED <<api_keys, table, nextId, now, scan, workers, retries, counters, allowed, queue>>

\* get_inbox_events up to its first repository call, the cursor being a
\* string: the checks of limit and status, the decoding of the cursor
\* (ValueError for every failure) and the query the repository is then asked.
InboxRequestString(user_id, limit, cursor, status) ==
    LET Asked(d) ==
            IF d.kind # "ok" THEN [result |-> CursorValueError, queries |-> <<>>]
            ELSE [result |-> d,
                  queries |-> <<[method |-> "query_by_status_with_cursor",
                                 user_id |-> user_id, status |-> status,
                                 limit |-> limit, cursor_timestamp |-> d.timestamp,
                                 cursor_event_id |-> d.event_id]>>]
    IN IF limit < MIN_LIMIT \/ limit > MAX_LIMIT \/ status \notin ValidInboxStatuses
       THEN [result |-> CursorValueError, queries |-> <<>>]
       ELSE Asked(DecodeCursorString(SecretKey, cursor, user_id))

\* last.reader calls get_inbox_events with the cursor.
GetInboxEventsCall(limit) ==
    /\ last.op \in {"encode_cursor", "forged"}
    /\ LET Called(r) == [last EXCEPT !.op = "get_inbox_events", !.limit = limit,
                                     !.result = r.result, !.queries = r.queries]
       IN last' = Called(InboxRequestString(last.reader, limit, last.cursor, "received"))
    /\ UNCHANGED <<api_keys, table, nextId, now, scan, workers, retries, counters, allowed, queue>>

NextCursor ==
    \/ EncodeCursorCall
    \/ \E kind \in ForgedKinds : Forge(kind)
    \/ DecodeCursorCall
    \/ \E limit \in {0, 50} : GetInboxEventsCall(limit)

SpecCursor == InitCursor /\ [][NextCursor]_vars

\* C18: decoding, for the same user and with the same secret, the cursor that
\* encode_cursor made of a timestamp, an event_id and a user_id returns exactly
\* that timestamp and event_id, also when the values contain '.' or '#'.
C18_RoundTrip ==
    (last.op = "decode_cursor" /\ last.forged = "none" /\ last.reader = last.user_id) =>
        last.result = [kind |-> "ok", timestamp |-> last.timestamp,
                       event_id |-> last.event_id]

C18_Witness ==
    /\ last.op = "decode_cursor"
    /\ last.forged = "none"
    /\ last.reader = last.user_id
    /\ last.timestamp = <<Ascii.dot>>
    /\ last.event_id = <<97, 46, 49, 35>>
    /\ last.user_id = <<117, 46, 50>>
    /\ last.result.kind = "ok"

\* C19: a cursor encoded for one user is rejected with ValueError when another
\* user decodes it, and get_inbox_events called by that other user with the
\* cursor raises ValueError and asks the repository nothing.
C19_CrossUserRejected ==
    (/\ last.op \in {"decode_cursor", "get_inbox_events"}
     /\ last.forged = "none"
     /\ last.reader # last.user_id) =>
        /\ last.result = CursorValueError
        /\ last.queries = <<>>

C19_Witness ==
    /\ last.op = "get_inbox_events"
    /\ last.forged = "none"
    /\ last.reader # last.user_id
    /\ last.limit = 50
    /\ last.result.kind = "ValueError"
    /\ last.queries = <<>>

\* C20: decode_cursor returns values only if the signature in the cursor is the
\* keyed signature of the payload in the cursor under the decoder's secret; a
\* cursor whose payload was changed under the original signature, whose
\* signature was changed or left out, or which was signed with another secret
\* is rejected with ValueError and yields no timestamp and event_id.
C20_TamperRejected ==
    last.op = "decode_cursor" =>
        /\ last.forged # "none" => last.result = CursorValueError
        /\ last.result.kind = "ok" =>
              LET Signed(parts) ==
                      Len(parts) = 2 /\ parts[2] = HexDigest(SecretKey, parts[1])
              IN Signed(RSplitDot(UrlsafeB64Decode(last.cursor).bytes))

C20_Witness ==
    /\ last.op = "decode_cursor"
    /\ last.forged = "user_id"
    /\ last.reader # last.user_id
    /\ last.timestamp = <<Ascii.dot>>
    /\ last.result.kind = "ValueError"

\* ------------------------------------------------ get_inbox_events, arguments
\* InboxService.get_inbox_events with any limit, status and cursor, no filter:
\* its outcome and the repository methods it has called, in order (the query at
\* line 104 follows the checks and the decoding of the cursor, the count at
\* line 128 follows a query that returned).
InboxArgsCall(user_id, limit, cursor, status) ==
    /\ LET Called(d) ==
               IF d.kind # "ok" THEN <<>>
               ELSE IF QueryByStatusWithCursor(user_id, status, limit, d.timestamp,
                                               d.event_id, {}).kind # "ok"
               THEN <<"query_by_status_with_cursor">>
               ELSE <<"query_by_status_with_cursor", "count_events_by_status">>
       IN last' = [op |-> "get_inbox_events", user_id |-> user_id, limit |-> limit,
                   cursor |-> cursor, status |-> status,
                   result |-> GetInboxEvents(user_id, limit, cursor, {}, status),
                   queries |-> Called(InboxRequest(user_id, limit, cursor, status))]
    /\ UNCHANGED <<api_keys, table, nextId, now, scan, workers, retries, counters, allowed, queue>>

NextInboxArgs ==
    \/ \E u \in Users : CreateOwnedEvent(u, "a", 1)
    \/ \E u \in Users, k \in {0, 1, 100, 101}, c \in IssuedCursors :
          \E s \in Statuses \cup {"queued", "unknown"} : InboxArgsCall(u, k, c, s)

SpecInboxArgs == Init /\ [][NextInboxArgs]_vars

\* C21: get_inbox_events accepts a status if and only if it is one of the
\* lifecycle states received, delivered, retrying, failed, and raises
\* ValueError for every other status.
C21_StatusIsLifecycleState ==
    (/\ last.op = "get_inbox_events"
     /\ last.limit >= 1 /\ last.limit <= 100
     /\ ~last.cursor.present) =>
        (last.result.kind # "ValueError"
            <=> last.status \in {"received", "delivered", "retrying", "failed"})

\* C22: get_inbox_events raises ValueError for every limit below 1 or above
\* 100 and, the status and the cursor being acceptable, for no limit in 1..100;
\* a call that raises ValueError has asked the repository for no query and no
\* count.
C22_LimitChecked ==
    last.op = "get_inbox_events" =>
        /\ (last.limit < 1 \/ last.limit > 100) => last.result.kind = "ValueError"
        /\ (/\ last.limit >= 1 /\ last.limit <= 100
            /\ last.status \in ValidInboxStatuses
            /\ last.cursor.present => last.cursor.payload.user_id = last.user_id) =>
                last.result.kind # "ValueError"
        /\ last.result.kind = "ValueError" => last.queries = <<>>
        /\ last.result.kind # "ValueError" => last.queries # <<>>

C22_Witness ==
    /\ last.op = "get_inbox_events"
    /\ last.limit = 101
    /\ last.status = "received"
    /\ ~last.cursor.present
    /\ \E i \in table : i.user_id = last.user_id
    /\ last.result.kind = "ValueError"
    /\ last.queries = <<>>

\* ------------------------------------------------ tables beyond one page
\* get_event_by_id that reads the first page only.
GetEventByIdFirstPage(user_id, event_id, start, pages) ==
    LET found == {i \in table : /\ i.user_id = user_id
                                /\ i.event_id = event_id
                                /\ Cardinality({j \in table : /\ j.user_id = user_id
                                                              /\ PairLess(j.tsid, i.tsid)})
                                      < GET_PAGE_LIMIT}
    IN IF found # {} THEN [kind |-> "item", item |-> CHOOSE i \in found : TRUE, pages |-> 1]
       ELSE [item |-> NoEvent, kind |-> "None", pages |-> 1]

\* get_event_by_id: table.query for the user's items in order of the sort key,
\* GET_PAGE_LIMIT items a page, from the exclusive start key start (0, 0 for
\* the first page), this page being page number pages. The store returns a
\* LastEvaluatedKey when the page is full; the loop goes on while there is one
\* (a page never holds 1000 items). The item found, or None.
RECURSIVE GetEventById(_, _, _, _)
GetEventById(user_id, event_id, start, pages) ==
    LET after == {i \in table : i.user_id = user_id /\ PairLess(start, i.tsid)}
        items == {i \in after :
                    Cardinality({j \in after : PairLess(j.tsid, i.tsid)}) < GET_PAGE_LIMIT}
        found == {i \in items : i.event_id = event_id}
        last_evaluated_key ==
            (CHOOSE i \in items : \A j \in items : ~PairLess(i.tsid, j.tsid)).tsid
    IN IF found # {}
       THEN [kind |-> "item", pages |-> pages,
             item |-> CHOOSE i \in found : \A j \in found : ~PairLess(j.tsid, i.tsid)]
       ELSE IF Cardinality(items) = GET_PAGE_LIMIT
       THEN GetEventById(user_id, event_id, last_evaluated_key, pages + 1)
       ELSE [kind |-> "None", item |-> NoEvent, pages |-> pages]

\* EventRepository.get_event_by_id.
GetEventByIdCall(user_id, event_id) ==
    /\ last' = [op |-> "get_event_by_id", user_id |-> user_id, event_id |-> event_id,
                result |-> GetEventById(user_id, event_id, <<0, 0>>, 1)]
    /\ UNCHANGED <<api_keys, table, nextId, now, scan, workers, retries, counters, allowed, queue>>

\* A snapshot: n 'received' events of u1, n none, one, or about a page of
\* COUNT_PAGE_LIMIT, the first m of them of type "b" and the others of type
\* "a", with timestamps out of the order of the ids, and one event of u2.
InitBulk ==
    /\ table \in
         {{NewItem("u1", id, IF id <= m THEN "b" ELSE "a", 1 + (id % 2)) : id \in 1..n}
          \cup {NewItem("u2", n + 1, "a", 1)} :
             n \in {0, 1} \cup ((COUNT_PAGE_LIMIT - 1)..(COUNT_PAGE_LIMIT + MaxBeyondPage)),
             m \in {0, 1, COUNT_PAGE_LIMIT - 1}}
    /\ nextId = 1
    /\ now = 1
    /\ last = NoCall
    /\ scan = IdleScan
    /\ workers = [w \in 1..NumWorkers |-> IdleWorker]
    /\ retries = [e \in EventIds |-> 0]
    /\ counters = {}
    /\ allowed = [k \in KeyIds, w \in Windows |-> 0]
    /\ queue = <<>>
    /\ api_keys = {}

NextBulk ==
    \/ \E u \in Users, et \in EventTypeFilters : CountEvents(u, et)
    \/ \E u \in Users, e \in {1, GET_PAGE_LIMIT, GET_PAGE_LIMIT + 1, GET_PAGE_LIMIT + 2} :
          GetEventByIdCall(u, e)

SpecBulk == InitBulk /\ [][NextBulk]_vars

\* C23: on a fixed snapshot with at most 10,000 matching events,
\* count_events_by_status returns the number of the user's events of the status
\* whose type is in event_types (of all of them without a filter), however many
\* pages of 100 they fill.
C23_CountExact ==
    last.op = "count_events_by_status" =>
        /\ last.result.kind = "ok"
        /\ last.result.count =
              Cardinality({i \in table : /\ i.user_id = last.user_id
                                         /\ i.status = last.status
                                         /\ (last.event_types = {}
                                             \/ i.event_type \in last.event_types)})

\* C27: get_event_by_id returns the stored event with the event_id under the
\* user_id if there is one, on whichever page of 100 it lies, and None if there
\* is none; it reads no more pages than the user's events fill, plus one.
C27_GetEventById ==
    last.op = "get_event_by_id" =>
        LET mine == {i \in table : i.user_id = last.user_id}
            owned == {i \in mine : i.event_id = last.event_id}
        IN /\ owned = {} => last.result.kind = "None"
           /\ owned # {} => last.result.kind = "item" /\ last.result.item \in owned
           /\ last.result.pages <= Cardinality(mine) \div GET_PAGE_LIMIT + 1

C27_Witness ==
    /\ last.op = "get_event_by_id"
    /\ last.result.kind = "item"
    /\ last.result.pages = 2
    /\ last.result.item.event_id = GET_PAGE_LIMIT + 1
    /\ \E i \in table : i.user_id # last.user_id /\ i.event_id = GET_PAGE_LIMIT + 2

\* ------------------------------------------------ retry delays
\* C25: the delays of schedule_retry follow the backoff from its start: on a
\* new event the first call returns next_retry_delay = 60 and the second 300;
\* get_retry_delay(n) is 60, 300, 900 for n = 0, 1, 2 and None from 3 on.
C25_BackoffFromStart ==
    /\ \A n \in 0..(MAX_RETRY_ATTEMPTS - 1) :
          GetRetryDelay(n) = [present |-> TRUE, seconds |-> RETRY_DELAYS[n + 1]]
    /\ \A n \in MAX_RETRY_ATTEMPTS..(MAX_RETRY_ATTEMPTS + MaxRetryArg) :
          GetRetryDelay(n) = NoDelay
    /\ RETRY_DELAYS = <<60, 300, 900>>
    /\ (RetryReturned /\ retries[last.event_id] \in {1, 2}) =>
          last.result.next_retry_delay =
             [present |-> TRUE, seconds |-> RETRY_DELAYS[retries[last.event_id]]]

C28_QueuedAfterPersisted ==
    /\ \A m \in 1..Len(queue) :
          \E i \in table : /\ i.user_id = queue[m].user_id
                           /\ i.event_id = queue[m].event_id
                           /\ i.event_type = queue[m].event_type
                           /\ i.timestamp = queue[m].timestamp
    /\ (last.op = "EventService.create_event" /\ last.put_outcome # "stored") =>
          \A m \in 1..Len(queue) : queue[m].event_id # last.event_id

C28_Witness ==
    /\ last.op = "EventService.create_event"
    /\ last.put_outcome = "stored"
    /\ last.queue_url_set
    /\ last.sqs_outcome = "sent"
    /\ Len(queue) = 2
    /\ queue[2].event_id = last.event_id
    /\ \E i \in table : i.event_id = queue[2].event_id /\ i.user_id = queue[2].user_id

\* ------------------------------------------------ API keys
\* APIKeyRepository.create: a fresh key_id (uuid4) and a fresh key, whose hash
\* the model identifies with the key_id; put_item of the full item, is_active
\* True. expires_at = NoTime stands for None.
CreateKey(user_id, key_id, expires_at) ==
    /\ \A r \in api_keys : r.key_id # key_id
    /\ api_keys' = api_keys \cup
          {[user_id |-> user_id, key_id |-> key_id, key_hash |-> key_id,
            has_is_active |-> TRUE, is_active |-> TRUE, expires_at |-> expires_at,
            rate_limit |-> RateLimitOf(key_id), last_used_at |-> NoTime]}
    /\ last' = [op |-> "create", user_id |-> user_id, key_id |-> key_id, result |-> TRUE]
    /\ UNCHANGED <<table, nextId, now, scan, workers, retries, counters, allowed, queue>>

\* APIKeyRepository.revoke: update_item SET is_active = False under the
\* condition that the item exists; False on any ClientError.
RevokeKey(user_id, key_id, store_error) ==
    LET found == {r \in api_keys : r.user_id = user_id /\ r.key_id = key_id}
        ok == store_error = "none" /\ found # {}
    IN /\ api_keys' = IF ok
                      THEN (api_keys \ found) \cup
                           {[r EXCEPT !.has_is_active = TRUE, !.is_active = FALSE] : r \in found}
                      ELSE api_keys
       /\ last' = [op |-> "revoke", user_id |-> user_id, key_id |-> key_id, result |-> ok]
       /\ UNCHANGED <<table, nextId, now, scan, workers, retries, counters, allowed, queue>>

\* update that also writes is_active = True.
UpdateKeyReactivating(user_id, key_id, name, rate_limit, store_error) ==
    LET found == {r \in api_keys : r.user_id = user_id /\ r.key_id = key_id}
        names == (IF name # "None" THEN {"name"} ELSE {})
                 \cup (IF rate_limit # 0 THEN {"rate_limit"} ELSE {})
        written == /\ names # {}
                   /\ store_error = "none"
                   /\ names \cap DynamoReservedWords = {}
                   /\ found # {}
    IN /\ api_keys' = IF written
                      THEN (api_keys \ found) \cup
                           {[r EXCEPT !.rate_limit = rate_limit, !.has_is_active = TRUE,
                                      !.is_active = TRUE] : r \in found}
                      ELSE api_keys
       /\ last' = [op |-> "update", user_id |-> user_id, key_id |-> key_id,
                   name |-> name, rate_limit |-> rate_limit,
                   result |-> (names = {} \/ written)]
       /\ UNCHANGED <<table, nextId, now, scan, workers, retries, counters, allowed, queue>>

\* APIKeyRepository.update. name = "None" and rate_limit = 0 stand for None.
\* With nothing to update it returns True without a call to the store;
\* otherwise update_item SET name = :name, rate_limit = :rate_limit (the names
\* written literally) under the condition that the item exists; False on any
\* ClientError.
UpdateKey(user_id, key_id, name, rate_limit, store_error) ==
    LET found == {r \in api_keys : r.user_id = user_id /\ r.key_id = key_id}
        names == (IF name # "None" THEN {"name"} ELSE {})
                 \cup (IF rate_limit # 0 THEN {"rate_limit"} ELSE {})
        written == /\ names # {}
                   /\ store_error = "none"
                   /\ names \cap DynamoReservedWords = {}
                   /\ found # {}
    IN /\ api_keys' = IF written
                      THEN (api_keys \ found) \cup
                           {[r EXCEPT !.rate_limit = rate_limit] : r \in found}
                      ELSE api_keys
       /\ last' = [op |-> "update", user_id |-> user_id, key_id |-> key_id,
                   name |-> name, rate_limit |-> rate_limit,
                   result |-> (names = {} \/ written)]
       /\ UNCHANGED <<table, nextId, now, scan, workers, retries, counters, allowed, queue>>

\* APIKeyRepository.update_last_used: update_item SET last_used_at with no
\* condition, which writes the attribute into the item or, when there is no
\* item under the key, creates one that holds the key and last_used_at only.
UpdateLastUsed(user_id, key_id, store_error) ==
    LET found == {r \in api_keys : r.user_id = user_id /\ r.key_id = key_id}
    IN /\ api_keys' =
             IF store_error # "none" THEN api_keys
             ELSE IF found # {}
             THEN (api_keys \ found) \cup {[r EXCEPT !.last_used_at = now] : r \in found}
             ELSE api_keys \cup
                  {[user_id |-> user_id, key_id |-> key_id, key_hash |-> "",
                    has_is_active |-> FALSE, is_active |-> FALSE, expires_at |-> NoTime,
                    rate_limit |-> 0, last_used_at |-> now]}
       /\ last' = [op |-> "update_last_used", user_id |-> user_id, key_id |-> key_id,
                   result |-> (store_error = "none")]
       /\ UNCHANGED <<table, nextId, now, scan, workers, retries, counters, allowed, queue>>

\* auth.lambda_handler over the keys table: api_key is the X-API-Key header
\* ("" when the request has none), lookup the outcome of the KeyHashIndex query
\* of get_by_hash, u the answer of the store to the rate limiter and
\* store_error the outcome of update_last_used. last keeps the items found
\* under the hash and the time of the call.
AuthorizeKey(api_key, lookup, u, store_error) ==
    LET found == {r \in api_keys : r.key_hash = api_key}
        Handle(key_state, rec) ==
            LET limiter == CheckRateLimitResult(u, rec.rate_limit)
                result == LambdaHandler(key_state, rec.key_id, limiter, store_error = "none")
                used == /\ result.kind = "Allow"
                        /\ store_error = "none"
            IN /\ api_keys' = IF used
                              THEN (api_keys \ {rec}) \cup {[rec EXCEPT !.last_used_at = now]}
                              ELSE api_keys
               /\ last' = [op |-> "authorize_key", api_key |-> api_key, lookup |-> lookup,
                           found |-> found, time |-> now,
                           key_state |-> key_state, limiter |-> limiter.kind,
                           update_last_used |-> store_error,
                           result |-> IF result.kind = "Allow" /\ limiter.kind # "ok"
                                      THEN [result EXCEPT !.rate_limit_remaining = rec.rate_limit]
                                      ELSE result]
        NoRecord == [key_id |-> "", rate_limit |-> 0]
    IN /\ IF api_key = "" THEN Handle("missing", NoRecord)
          ELSE IF lookup # "none" \/ found = {} THEN Handle("not_found", NoRecord)
          ELSE LET rec == CHOOSE r \in found : TRUE
               IN IF ~rec.is_active THEN Handle("inactive", rec)
                  ELSE IF rec.expires_at # NoTime /\ now > rec.expires_at
                  THEN Handle("expired", rec)
                  ELSE Handle("valid", rec)
       /\ UNCHANGED <<table, nextId, now, scan, workers, retries, counters, allowed, queue>>

\* One key, k1 of u1, is created, used, updated and revoked, by its owner and
\* by u2, before and after it exists, while the clock advances past its expiry
\* if it has one; requests carry k1, the unknown key k2 or no key.
NextKeys ==
    \/ Tick
    \/ \E e \in {NoTime, 1} : CreateKey("u1", "k1", e)
    \/ \E u \in Users, err \in {"none", "InternalServerError"} :
          \/ RevokeKey(u, "k1", err)
          \/ \E name \in {"None", "key"}, n \in {0, MaxRateLimit} :
                UpdateKey(u, "k1", name, n, err)
    \/ \E err \in {"none", "InternalServerError"} : UpdateLastUsed("u1", "k1", err)
    \/ \E k \in KeyIds \cup {""}, lookup \in {"none", "InternalServerError"},
          u \in StoreOutcomes, err \in {"none", "InternalServerError"} :
          AuthorizeKey(k, lookup, u, err)

SpecKeys == Init /\ [][NextKeys]_vars


\* C24: the authorizer returns an Allow policy only for a request whose key is
\* present, has its hash in the store, is active and is not expired; a request
\* without a key, with an unknown, inactive or expired key, or whose key lookup
\* failed in the store, ends in 'Unauthorized'; a request that passes these
\* checks and the rate limit is allowed whether update_last_used succeeds or
\* fails.
C24_AllowOnlyValidKey ==
    last.op = "authorize_key" =>
        LET usable == /\ last.api_key # ""
                      /\ last.lookup = "none"
                      /\ \E r \in last.found :
                            /\ r.key_hash = last.api_key
                            /\ r.is_active
                            /\ (r.expires_at = NoTime \/ last.time <= r.expires_at)
        IN /\ last.result.kind = "Allow" => usable
           /\ ~usable => last.result.kind = "Unauthorized"
           /\ (usable /\ last.limiter # "RateLimitError") => last.result.kind = "Allow"

C24_Witness ==
    /\ last.op = "authorize_key"
    /\ last.api_key = "k1"
    /\ last.update_last_used = "InternalServerError"
    /\ last.result.kind = "Allow"
    /\ \E r \in last.found : r.key_hash = "k1" /\ r.is_active /\ r.expires_at = last.time
    /\ \E r \in api_keys : r.key_hash = "k1" /\ r.last_used_at = NoTime

\* C29 as stated: a key whose is_active is false keeps it false through every
\* update, update_last_used and revoke, and every authorization with it is
\* denied; revoke and update on a key that does not exist return False and
\* leave the table as it was.
C29_AsStated ==
    [][/\ \A r \in api_keys :
             (r.has_is_active /\ ~r.is_active) =>
                 \E q \in api_keys' : /\ q.user_id = r.user_id
                                      /\ q.key_id = r.key_id
                                      /\ q.has_is_active
                                      /\ ~q.is_active
       /\ (/\ last'.op = "authorize_key"
           /\ \E r \in api_keys : r.key_hash = last'.api_key /\ ~r.is_active) =>
              last'.result.kind = "Unauthorized"
       /\ (/\ last'.op \in {"revoke", "update"}
           /\ \A r \in api_keys : ~(r.user_id = last'.user_id /\ r.key_id = last'.key_id)) =>
              /\ last'.result = FALSE
              /\ api_keys' = api_keys]_vars

\* C29, amended: as above, except that an update that is given neither a name
\* nor a rate_limit returns True, on a key that does not exist too; it creates
\* no record.
C29_RevocationPermanent ==
    [][/\ \A r \in api_keys :
             (r.has_is_active /\ ~r.is_active) =>
                 \E q \in api_keys' : /\ q.user_id = r.user_id
                                      /\ q.key_id = r.key_id
                                      /\ q.has_is_active
                                      /\ ~q.is_active
       /\ (/\ last'.op = "authorize_key"
           /\ \E r \in api_keys : r.key_hash = last'.api_key /\ ~r.is_active) =>
              last'.result.kind = "Unauthorized"
       /\ (/\ last'.op \in {"revoke", "update"}
           /\ \A r \in api_keys : ~(r.user_id = last'.user_id /\ r.key_id = last'.key_id)) =>
              /\ last'.result =
                    (last'.op = "update" /\ last'.name = "None" /\ last'.rate_limit = 0)
              /\ api_keys' = api_keys]_vars

C29_Witness ==
    /\ last.op = "authorize_key"
    /\ last.api_key = "k1"
    /\ last.lookup = "none"
    /\ last.result.kind = "Unauthorized"
    /\ \E r \in last.found : /\ ~r.is_active
                              /\ r.rate_limit = MaxRateLimit
                              /\ r.last_used_at = last.time
                              /\ r.expires_at = NoTime


\* ------------------------------------------------ sample client
\* What session.request gives one attempt: a response with a status code, its
\* body being JSON or not, or a requests.exceptions.RequestException.
HttpOutcomes ==
    {[kind |-> "response", status_code |-> c, json |-> TRUE] :
        c \in {200, 201, 204, 400, 401, 404, 429, 500}}
    \cup {[kind |-> "response", status_code |-> 200, json |-> FALSE],
          [kind |-> "RequestException", status_code |-> 0, json |-> FALSE]}

\* TriggersAPI._request entered: the loop 'for attempt in range(max_retries)'
\* before its first attempt; with max_retries < 1 the loop has no pass and the
\* method ends at once, returning None. response.json() of a body that is not
\* JSON raises requests' JSONDecodeError, which is a RequestException in
\* requests from 2.27 on and a plain ValueError before; the client does not pin
\* the version, and decode_error_is_request_exception says which it runs on.
RequestStart(max_retries, decode_error_is_request_exception) ==
    /\ last' = [op |-> "_request", max_retries |-> max_retries, attempts |-> <<>>,
                decode_error_is_request_exception |-> decode_error_is_request_exception,
                state |-> IF max_retries < 1 THEN "returned" ELSE "running",
                value |-> IF max_retries < 1 THEN "None" ELSE ""]
    /\ UNCHANGED <<api_keys, table, nextId, now, scan, workers, retries, counters, allowed, queue>>

\* One pass of the loop of _request, session.request ending with outcome:
\* 200/201 return response.json() and 204 returns None; the other statuses go
\* through _handle_error_response, which raises by status; RateLimitError and
\* RequestException are retried unless this was the last pass.
RequestAttempt(outcome) ==
    /\ last.op = "_request"
    /\ last.state = "running"
    /\ LET attempt == Len(last.attempts)
           Ends(state, value) ==
               [last EXCEPT !.attempts = Append(@, outcome), !.state = state, !.value = value]
           Retried(raised) ==
               IF attempt < last.max_retries - 1
               THEN [last EXCEPT !.attempts = Append(@, outcome)]
               ELSE Ends("raised", raised)
       IN last' =
             IF outcome.kind = "RequestException" THEN Retried("TriggersAPIError")
             ELSE IF outcome.status_code = 204 THEN Ends("returned", "None")
             ELSE IF outcome.status_code \in {200, 201}
             THEN IF outcome.json THEN Ends("returned", "json")
                  ELSE IF last.decode_error_is_request_exception THEN Retried("TriggersAPIError")
                  ELSE Ends("raised", "ValueError")
             ELSE IF outcome.status_code = 401 THEN Ends("raised", "AuthenticationError")
             ELSE IF outcome.status_code = 429 THEN Retried("RateLimitError")
             ELSE IF outcome.status_code = 400 THEN Ends("raised", "ValidationError")
             ELSE Ends("raised", "TriggersAPIError")
    /\ UNCHANGED <<api_keys, table, nextId, now, scan, workers, retries, counters, allowed, queue>>

NextClient ==
    \/ \E n \in 0..MaxClientRetries, d \in BOOLEAN : RequestStart(n, d)
    \/ \E o \in HttpOutcomes : RequestAttempt(o)

SpecClient == Init /\ [][NextClient]_vars

\* C30: _request makes at most max_retries attempts; once it has made
\* max_retries attempts it has ended; it ends by returning after a 200, 201 or
\* 204 response or by raising; every attempt but the last was answered by 429
\* or failed in the network, and a 400, 401, 404 or other error response is
\* the last attempt and is raised.
C30_BoundedRetries ==
    last.op = "_request" =>
        LET n == Len(last.attempts)
        IN /\ n <= last.max_retries
           /\ n >= last.max_retries => last.state # "running"
           /\ last.state \in {"running", "returned", "raised"}
           /\ last.state = "returned" =>
                 /\ n >= 1
                 /\ last.attempts[n].kind = "response"
                 /\ last.attempts[n].status_code \in {200, 201, 204}
           /\ \A a \in 1..n :
                 /\ a < n => \/ last.attempts[a].kind = "RequestException"
                             \/ last.attempts[a].status_code = 429
                 /\ last.attempts[a].status_code \in {400, 401, 404, 500} =>
                       a = n /\ last.state = "raised"

====
